---- MODULE Spec2Model ----
(***************************************************************************)
(* Model of the Taskflow backend (Express routes + Mongoose models).       *)
(*                                                                         *)
(* State is the persistence layer (users, tasks, products), the set of     *)
(* signed tokens handed out so far, and the last request/response pair.    *)
(* One action per route handler or model method.  A request is modelled    *)
(* from the point where the router receives it: the helmet, rate-limit,    *)
(* morgan and cors middleware of server.js lines 33-60 are not modelled,   *)
(* so every statement about a response is about a request the rate         *)
(* limiter has admitted.  Handlers run atomically in the specifications    *)
(* below.                                                                  *)
(***************************************************************************)
EXTENDS Integers, Sequences, FiniteSets, TLC

VARIABLES
    users,      \* [id -> user document], DOMAIN = ids stored in the User collection
    nextUid,    \* next fresh ObjectId of the User collection
    issued,     \* tokens signed with JWT_SECRET so far: [userId, type]
    reg,        \* history: what each stored user registered with
    tasks,      \* [id -> task document]
    nextTid,    \* next fresh ObjectId of the Task collection
    products,   \* [id -> product document]
    nextPid,    \* next fresh ObjectId of the Product collection
    saved,      \* history: the images of the last product save, before and after the hook
    pending,    \* requests in flight: past their lookup, before their write
    last        \* the last request and the response it got

vars == <<users, nextUid, issued, reg, tasks, nextTid, products, nextPid, saved, pending, last>>

-----------------------------------------------------------------------------
(* Bounds *)

MaxUsers == 2       \* ids the User collection hands out
MaxTasks == 1       \* ids the Task collection hands out
MaxComments == 1    \* comments kept on a task
MaxProducts == 1    \* ids the Product collection hands out
MaxImages == 2      \* images kept on a product
MaxStock == 1       \* units of stock kept on a product
MaxInFlight == 2    \* requests in flight at once
MaxErrors == 2      \* failing paths one validation error carries
MaxSaved == 3       \* images on a document handed to save()

-----------------------------------------------------------------------------
(* Values *)

Absent == "<absent>"    \* a field the request body does not carry (undefined)
BadId == 0              \* a :id that is not a well-formed ObjectId
NoId == -1              \* no id involved
NoNumber == 999         \* a numeric field the request body does not carry

Roles == {"user", "admin", "manager"}

DemoEmail == "demo@example.com"
DemoPassword == "password123"

\* Email strings a client may submit.
RawEmails == {"demo@example.com", "Ann@x.io", "a+b@x.io", "nope"}

\* Password strings a client may submit.
Plaintexts == {"secret1", "abc", "password123"}

\* String.length of the strings above.
StrLen(s) ==
    CASE s = "" -> 0
      [] s = "A" -> 1
      [] s = "L" -> 1
      [] s = "abc" -> 3
      [] s = "Ann" -> 3
      [] s = "Lee" -> 3
      [] s = "secret1" -> 7
      [] s = "password123" -> 11
      [] OTHER -> 8

\* validator.js isEmail on RawEmails.
IsEmail(e) == e \in {"demo@example.com", "ann@x.io", "Ann@x.io", "a+b@x.io"}

\* String.prototype.toLowerCase on RawEmails.
ToLowerCase(e) == IF e = "Ann@x.io" THEN "ann@x.io" ELSE e

\* validator.js normalizeEmail (all_lowercase) on RawEmails: none of the
\* domains is one whose sub-address or dots are stripped.
NormalizeEmail(e) == ToLowerCase(e)

\* The schema's email regex /^\w+([.-]?\w+)*@\w+([.-]?\w+)*(\.\w{2,3})+$/,
\* applied to the lowercased value.
EmailMatch(e) == ToLowerCase(e) \in {"demo@example.com", "ann@x.io"}

\* A stored password value: the string a client sent (plain), its bcrypt
\* hash (bcrypt), or the bcrypt hash of a string that was already a hash
\* (rehash).
Raw(p) == [kind |-> "plain", of |-> p]

BcryptHash(v) ==
    IF v.kind = "plain" THEN [kind |-> "bcrypt", of |-> v.of]
    ELSE [kind |-> "rehash", of |-> v.of]

\* bcrypt.compare(candidate, stored): false when stored is no hash of it.
BcryptCompare(candidate, stored) == stored.kind = "bcrypt" /\ stored.of = candidate

-----------------------------------------------------------------------------
(* User model *)

PreSaveAlwaysHash(doc, passwordModified) == [doc EXCEPT !.password = BcryptHash(@)]

\* userSchema.pre("save"): hash the password when it was modified.
UserPreSave(doc, passwordModified) ==
    IF ~passwordModified THEN doc
    ELSE [doc EXCEPT !.password = BcryptHash(@)]

ComparePasswordAny(doc, candidate) == TRUE

\* userSchema.methods.comparePassword
ComparePassword(doc, candidate) == BcryptCompare(candidate, doc.password)

\* userSchema.statics.findByEmail: the ids whose email is email.toLowerCase()
FindByEmail(email) == {u \in DOMAIN users : users[u].email = ToLowerCase(email)}

\* Schema validation of the paths of a user document: the set of failing paths.
UserValidationErrors(email, password, role) ==
    (IF email # Absent /\ ~EmailMatch(email) THEN {"email"} ELSE {})
    \cup (IF password # Absent /\ StrLen(password) < 6 THEN {"password"} ELSE {})
    \cup (IF role # Absent /\ role \notin Roles THEN {"role"} ELSE {})

-----------------------------------------------------------------------------
(* Tokens *)

AccessToken(uid) == [userId |-> uid, type |-> "access"]
ResetToken(uid) == [userId |-> uid, type |-> "password-reset"]

NoHeader == [kind |-> "none", userId |-> NoId, type |-> "none", late |-> FALSE]
Garbage == [kind |-> "garbage", userId |-> NoId, type |-> "none", late |-> FALSE]

\* What a client can put after "Bearer": nothing, a string that is no token
\* signed by this server, or a token this server issued, presented before
\* (late = FALSE) or after (late = TRUE) its exp claim.
Headers ==
    {NoHeader, Garbage} \cup
    {[kind |-> "jwt", userId |-> t.userId, type |-> t.type, late |-> l] :
        t \in issued, l \in BOOLEAN}

JwtVerifyAnyType(h) ==
    IF h.kind = "garbage" THEN [error |-> "JsonWebTokenError", userId |-> NoId, type |-> "none"]
    ELSE IF h.late THEN [error |-> "TokenExpiredError", userId |-> NoId, type |-> "none"]
    ELSE [error |-> "none", userId |-> h.userId, type |-> "password-reset"]

\* jwt.verify(token, JWT_SECRET): the signature is checked before the expiry.
JwtVerify(h) ==
    IF h.kind = "garbage" THEN [error |-> "JsonWebTokenError", userId |-> NoId, type |-> "none"]
    ELSE IF h.late THEN [error |-> "TokenExpiredError", userId |-> NoId, type |-> "none"]
    ELSE [error |-> "none", userId |-> h.userId, type |-> h.type]

\* What the caller presented: "none", "garbage", "expired" (a signed token
\* past its expiry), "reset" (a live password-reset token) or "jwt" (a live
\* access token).
AuthKind(h) ==
    IF h.kind # "jwt" THEN h.kind
    ELSE IF h.late THEN "expired"
    ELSE IF h.type = "password-reset" THEN "reset"
    ELSE "jwt"

Deny(st, msg) == [next |-> FALSE, status |-> st, message |-> msg, user |-> NoId]
Pass(uid) == [next |-> TRUE, status |-> 0, message |-> "", user |-> uid]

AuthenticateSkipActive(h) ==
    IF h.kind = "none" THEN Deny(401, "Access token is required")
    ELSE IF h.kind = "garbage" THEN Deny(401, "Invalid token")
    ELSE IF h.late THEN Deny(401, "Token has expired")
    ELSE IF h.userId \notin DOMAIN users THEN Deny(401, "User not found")
    ELSE Pass(h.userId)

AuthenticateIgnoringExpiry(h) ==
    IF h.kind = "none" THEN Deny(401, "Access token is required")
    ELSE IF h.kind = "garbage" THEN Deny(401, "Invalid token")
    ELSE IF h.userId \notin DOMAIN users THEN Deny(401, "User not found")
    ELSE IF ~users[h.userId].isActive THEN Deny(401, "User account is deactivated")
    ELSE Pass(h.userId)

\* authenticateToken: calls next() with req.user set, or responds 401.
AuthenticateToken(h) ==
    IF h.kind = "none" THEN Deny(401, "Access token is required")
    ELSE LET decoded == JwtVerify(h) IN
        IF decoded.error = "JsonWebTokenError" THEN Deny(401, "Invalid token")
        ELSE IF decoded.error = "TokenExpiredError" THEN Deny(401, "Token has expired")
        ELSE IF decoded.userId \notin DOMAIN users THEN Deny(401, "User not found")
        ELSE IF ~users[decoded.userId].isActive
            THEN Deny(401, "User account is deactivated")
        ELSE Pass(decoded.userId)

SelectAll(doc, excluded) == doc

\* A document without the paths a select("-path") projection excludes.
Select(doc, excluded) == [f \in DOMAIN doc \ excluded |-> doc[f]]

\* req.user after authenticateToken has called next():
\* userSchema.methods.getPublicProfile: toObject(), then delete password.
GetPublicProfile(doc) == Select(doc, {"password"})

\* populate(path, "firstName lastName email"): the referenced user with the
\* listed paths only.
Populate(doc, paths) == [f \in DOMAIN doc \cap paths |-> doc[f]]

\* User.findById(decoded.userId).select("-password")
ReqUser(h) == Select(users[JwtVerify(h).userId], {"password"})

RequireRoleAllowAll(roles, uid) == Pass(uid)

\* requireRole(roles): runs after authenticateToken, on req.user.
RequireRole(roles, uid) ==
    IF uid = NoId THEN Deny(401, "Authentication required")
    ELSE IF users[uid].role \notin roles THEN Deny(403, "Insufficient permissions")
    ELSE Pass(uid)

\* requireAdmin = requireRole(["admin"])
RequireAdmin(uid) == RequireRole({"admin"}, uid)

-----------------------------------------------------------------------------
(* Error normalizer *)

\* An error object: name, code ("" when it has none; the number 11000 is
\* written "11000"), statusCode (0 when it has none), message, the first key
\* of keyValue (duplicate key) and the messages of errors (validation).
Err(name, code, statusCode, message) ==
    [name |-> name, code |-> code, statusCode |-> statusCode, message |-> message,
     keyValue |-> "", errors |-> <<>>]

\* No error was raised.
NoErr == Err("", "", 0, "")

\* The errors the modelled handlers throw.
UncategorizedCast == Err("Error", "", 0, "Cast to ObjectId failed")

CastError == Err("CastError", "", 0, "Cast to ObjectId failed")
DuplicateKey(field) ==
    [Err("MongoServerError", "11000", 0, "E11000 duplicate key error") EXCEPT
        !.keyValue = field]
ValidationError(message) ==
    [Err("ValidationError", "", 0, "Validation failed") EXCEPT !.errors = <<message>>]
IllegalArguments == Err("Error", "", 0, "Illegal arguments: undefined, string")

\* The message of a duplicate key: the field, then " already exists".
AlreadyExists(field) == field \o " already exists"

\* Object.values(err.errors).map(val => val.message).join(", ")
RECURSIVE Join(_)
Join(messages) ==
    IF Len(messages) = 0 THEN ""
    ELSE IF Len(messages) = 1 THEN messages[1]
    ELSE messages[1] \o ", " \o Join(Tail(messages))

\* The message of the validator that rejects a path of the User schema.
PathMessage(path) ==
    CASE path = "email" -> "Please enter a valid email"
      [] path = "password" -> "Password must be at least 6 characters long"
      [] path = "role" -> "role is not a valid enum value"
      [] path = "theme" -> "theme is not a valid enum value"
      [] path = "status" -> "status is not a valid enum value"
      [] path = "progress" -> "Progress cannot exceed 100%"
      [] path = "assignedTo" -> "Task must be assigned to a user"
      [] path = "content" -> "Path content is required."
      [] path = "name" -> "Product name is required"
      [] path = "url" -> "Path url is required."
      [] path = "stock" -> "Stock cannot be negative"
      [] OTHER -> "Path is required"

\* Object.values(err.errors).map(val => val.message).join(", ") for the
\* failing paths a modelled request can produce (at most one at a time).
JoinMessages(paths) ==
    IF Cardinality(paths) = 1 THEN PathMessage(CHOOSE x \in paths : TRUE)
    ELSE "several validation messages"

ErrorHandlerStatusFirst(err) ==
    IF err.statusCode # 0
    THEN [status |-> err.statusCode, message |-> err.message]
    ELSE [status |-> 500, message |-> "Server Error"]

\* errorHandler: (status, message) of an error forwarded by asyncHandler.
ErrorHandler(err) ==
    LET e0 == [statusCode |-> err.statusCode, message |-> err.message]
        e1 == IF err.name = "CastError"
              THEN [statusCode |-> 404, message |-> "Resource not found"] ELSE e0
        e2 == IF err.code = "11000"
              THEN [statusCode |-> 400, message |-> AlreadyExists(err.keyValue)] ELSE e1
        e3 == IF err.name = "ValidationError"
              THEN [statusCode |-> 400, message |-> Join(err.errors)] ELSE e2
        e4 == IF err.name = "JsonWebTokenError"
              THEN [statusCode |-> 401, message |-> "Invalid token"] ELSE e3
        e5 == IF err.name = "TokenExpiredError"
              THEN [statusCode |-> 401, message |-> "Token expired"] ELSE e4
        e6 == IF err.code = "LIMIT_FILE_SIZE"
              THEN [statusCode |-> 400, message |-> "File too large"] ELSE e5
        e7 == IF err.code = "LIMIT_UNEXPECTED_FILE"
              THEN [statusCode |-> 400, message |-> "Unexpected file field"] ELSE e6
        statusCode == IF e7.statusCode # 0 THEN e7.statusCode
                      ELSE IF err.statusCode # 0 THEN err.statusCode ELSE 500
        message == IF e7.message # "" THEN e7.message ELSE "Server Error"
    IN [status |-> statusCode, message |-> message]

-----------------------------------------------------------------------------
(* Request / response record *)

Envelope == {"success", "message"}

\* route, how the caller authenticated, the acting user, the :id, the email
\* and password of the body, and the response: status, message, keys of the
\* JSON body, whether data carries a token, whether the route handler ran,
\* the success flag of the body (true in the 2xx and false in the 4xx
\* responses the routes write), the currentPassword of a password change,
\* the createdBy a create body carries;
\* err is the error raised while the request was handled (NoErr if none) and
\* forwarded tells whether it reached errorHandler.
Exchange(route, h, actor, id, email, password, st, msg, keys, token, ran) ==
    [route |-> route, auth |-> AuthKind(h),
     bearer |-> IF h.kind = "jwt" THEN h.userId ELSE NoId, actor |-> actor, id |-> id,
     email |-> email, password |-> password,
     status |-> st, message |-> msg, keys |-> keys, token |-> token, ran |-> ran,
     success |-> (st < 400), err |-> NoErr, forwarded |-> FALSE, current |-> Absent,
     createdBy |-> NoId]

\* The response of a middleware that ended the request.
Rejected(route, h, id, d) ==
    Exchange(route, h, NoId, id, Absent, Absent, d.status, d.message, Envelope, FALSE, FALSE)

NoReg == [email |-> Absent, plain |-> Absent, hist |-> "none"]

\* The step runs a handler from its first persistence call to its response:
\* it neither leaves a request in flight nor resumes one.
Atomic == UNCHANGED pending

UsersUnchanged == UNCHANGED <<users, nextUid, issued, reg>>
TasksUnchanged == UNCHANGED <<tasks, nextTid>>
ProductsUnchanged == UNCHANGED <<products, nextPid, saved>>

\* History: the password of user u was changed, or u was deactivated or deleted.
Touch(r, u) == [r EXCEPT ![u] = NoReg]

\* History: the email of user u was changed.
TouchEmail(r, u) == [r EXCEPT ![u] = IF @.hist = "intact" THEN [@ EXCEPT !.hist = "moved"] ELSE @]

-----------------------------------------------------------------------------
(* Startup *)

SeedAlways ==
    /\ nextUid <= MaxUsers
    /\ users' = users @@ (nextUid :>
            UserPreSave([firstName |-> "Demo", email |-> DemoEmail,
                         password |-> Raw(DemoPassword),
                         role |-> "admin", isActive |-> TRUE,
                         lastLogin |-> FALSE, theme |-> "light"], TRUE))
    /\ nextUid' = nextUid + 1
    /\ UNCHANGED <<issued, reg>>
    /\ last' = Exchange("seed", NoHeader, NoId, NoId, DemoEmail, DemoPassword,
                        0, "", {}, FALSE, TRUE)
    /\ TasksUnchanged /\ ProductsUnchanged /\ Atomic

\* seedDemoUser: create the demo admin unless a user with its email exists.
SeedDemoUser ==
    /\ IF \E u \in DOMAIN users : users[u].email = DemoEmail
       THEN UsersUnchanged
       ELSE /\ nextUid <= MaxUsers
            /\ users' = users @@ (nextUid :>
                    UserPreSave([firstName |-> "Demo", email |-> DemoEmail,
                                 password |-> Raw(DemoPassword),
                                 role |-> "admin", isActive |-> TRUE,
                                 lastLogin |-> FALSE, theme |-> "light"], TRUE))
            /\ nextUid' = nextUid + 1
            /\ UNCHANGED <<issued, reg>>
    /\ last' = Exchange("seed", NoHeader, NoId, NoId, DemoEmail, DemoPassword,
                        0, "", {}, FALSE, TRUE)
    /\ TasksUnchanged /\ ProductsUnchanged /\ Atomic

-----------------------------------------------------------------------------
(* Auth routes.  Each takes the sets its request body is drawn from. *)

ValidationFailed(route, h, e, p) ==
    Exchange(route, h, NoId, NoId, e, p, 400, "Validation failed",
             {"success", "message", "errors"}, FALSE, TRUE)

\* The response errorHandler sends for an error thrown by a route handler.
Thrown(route, h, actor, id, e, p, err) ==
    [Exchange(route, h, actor, id, e, p, ErrorHandler(err).status,
              ErrorHandler(err).message, Envelope, FALSE, TRUE)
        EXCEPT !.success = FALSE, !.err = err, !.forwarded = TRUE]

\* POST /api/auth/register with body {firstName, lastName, email, password, role}
Register(names, emails, passwords, roles) ==
    \E n \in names, e \in emails, p \in passwords, r \in roles :
        LET email == NormalizeEmail(e)
            role == IF r = Absent THEN "user" ELSE r
            invalid == \/ StrLen(n[1]) < 2 \/ StrLen(n[1]) > 50
                       \/ StrLen(n[2]) < 2 \/ StrLen(n[2]) > 50
                       \/ ~IsEmail(e)
                       \/ StrLen(p) < 6
                       \/ (r # Absent /\ r \notin Roles)
            failing == UserValidationErrors(email, p, role)
            created == UserPreSave([firstName |-> n[1], email |-> ToLowerCase(email),
                                    password |-> Raw(p),
                                    role |-> role, isActive |-> TRUE,
                                    lastLogin |-> FALSE, theme |-> "light"], TRUE)
            stamped == UserPreSave([created EXCEPT !.lastLogin = TRUE], FALSE)
        IN
        /\ TasksUnchanged /\ ProductsUnchanged /\ Atomic
        /\ IF invalid
           THEN /\ last' = ValidationFailed("register", NoHeader, e, p)
                /\ UsersUnchanged
           ELSE IF FindByEmail(email) # {}
           THEN /\ last' = Exchange("register", NoHeader, NoId, NoId, e, p, 400,
                                    "User with this email already exists", Envelope,
                                    FALSE, TRUE)
                /\ UsersUnchanged
           ELSE IF failing # {}
           THEN /\ last' = Thrown("register", NoHeader, NoId, NoId, e, p,
                                  ValidationError(JoinMessages(failing)))
                /\ UsersUnchanged
           ELSE /\ nextUid <= MaxUsers
                /\ users' = users @@ (nextUid :> stamped)
                /\ nextUid' = nextUid + 1
                /\ issued' = issued \cup {AccessToken(nextUid)}
                /\ reg' = [reg EXCEPT ![nextUid] =
                              [email |-> e, plain |-> p, hist |-> "intact"]]
                /\ last' = Exchange("register", NoHeader, nextUid, NoId, e, p, 201,
                                    "User registered successfully",
                                    {"success", "message", "data"}, TRUE, TRUE)

LoginDenied(e, p, msg) ==
    Exchange("login", NoHeader, NoId, NoId, e, p, 401, msg, Envelope, FALSE, TRUE)

\* POST /api/auth/login with body {email, password}
Login(emails, passwords) ==
    \E e \in emails, p \in passwords :
        LET found == FindByEmail(NormalizeEmail(e)) IN
        /\ TasksUnchanged /\ ProductsUnchanged /\ Atomic
        /\ IF ~IsEmail(e) \/ p = ""
           THEN /\ last' = ValidationFailed("login", NoHeader, e, p)
                /\ UsersUnchanged
           ELSE IF found = {}
           THEN /\ last' = LoginDenied(e, p, "Invalid email or password")
                /\ UsersUnchanged
           ELSE LET user == CHOOSE u \in found : TRUE IN
                IF ~users[user].isActive
                THEN /\ last' = LoginDenied(e, p, "Account is deactivated")
                     /\ UsersUnchanged
                ELSE IF ~ComparePassword(users[user], p)
                THEN /\ last' = LoginDenied(e, p, "Invalid email or password")
                     /\ UsersUnchanged
                ELSE /\ issued' = issued \cup {AccessToken(user)}
                     /\ users' = [users EXCEPT ![user] =
                                     UserPreSave([@ EXCEPT !.lastLogin = TRUE], FALSE)]
                     /\ UNCHANGED <<nextUid, reg>>
                     /\ last' = Exchange("login", NoHeader, user, NoId, e, p, 200,
                                         "Login successful",
                                         {"success", "message", "data"}, TRUE, TRUE)

\* POST /api/auth/forgot-password with body {email}
ForgotPassword(emails) ==
    \E e \in emails :
        LET found == FindByEmail(NormalizeEmail(e)) IN
        /\ TasksUnchanged /\ ProductsUnchanged /\ Atomic
        /\ UNCHANGED <<users, nextUid, reg>>
        /\ IF ~IsEmail(e)
           THEN /\ last' = ValidationFailed("forgot-password", NoHeader, e, Absent)
                /\ UNCHANGED issued
           ELSE IF found = {}
           THEN /\ last' = Exchange("forgot-password", NoHeader, NoId, NoId, e, Absent, 200,
                    "If an account with that email exists, a password reset link has been sent",
                    Envelope, FALSE, TRUE)
                /\ UNCHANGED issued
           ELSE LET user == CHOOSE u \in found : TRUE IN
                /\ issued' = issued \cup {ResetToken(user)}
                /\ last' = Exchange("forgot-password", NoHeader, NoId, NoId, e, Absent, 200,
                                    "Password reset link sent to your email",
                                    {"success", "message", "data"}, TRUE, TRUE)

\* POST /api/auth/reset-password with body {token: h, password: p}; the
\* exchange records under id the user the token names.
ResetPassword(passwords) ==
    \E h \in Headers, p \in passwords :
        LET decoded == JwtVerify(h)
            refuse(msg) == /\ last' = Exchange("reset-password", h, NoId, h.userId, Absent,
                                               p, 400, msg, Envelope, FALSE, TRUE)
                           /\ UsersUnchanged
        IN
        /\ TasksUnchanged /\ ProductsUnchanged /\ Atomic
        /\ IF h.kind = "none" \/ StrLen(p) < 6
           THEN /\ last' = [ValidationFailed("reset-password", h, Absent, p)
                                EXCEPT !.id = h.userId]
                /\ UsersUnchanged
           ELSE IF decoded.error # "none"
           THEN refuse("Invalid or expired reset token")
           ELSE IF decoded.type # "password-reset"
           THEN refuse("Invalid reset token")
           ELSE IF decoded.userId \notin DOMAIN users
           THEN refuse("Invalid reset token")
           ELSE /\ users' = [users EXCEPT ![decoded.userId] =
                                UserPreSave([@ EXCEPT !.password = Raw(p)], TRUE)]
                /\ reg' = Touch(reg, decoded.userId)
                /\ UNCHANGED <<nextUid, issued>>
                /\ last' = Exchange("reset-password", h, NoId, h.userId, Absent, p, 200,
                                    "Password reset successful", Envelope, FALSE, TRUE)

\* A route whose handler only answers: GET /api/auth/me, POST /api/auth/logout.
Answer(route, msg, keys) ==
    \E h \in Headers :
        LET a == AuthenticateToken(h) IN
        /\ UsersUnchanged /\ TasksUnchanged /\ ProductsUnchanged /\ Atomic
        /\ last' = IF ~a.next THEN Rejected(route, h, NoId, a)
                   ELSE Exchange(route, h, a.user, NoId, Absent, Absent, 200, msg,
                                 keys, FALSE, TRUE)

\* GET /api/auth/me
GetMe == Answer("GET /auth/me", "", {"success", "data"})

LogoutRevoking ==
    \E h \in Headers :
        LET a == AuthenticateToken(h) IN
        /\ a.next
        /\ issued' = issued \ {t \in issued : t.userId = a.user}
        /\ UNCHANGED <<users, nextUid, reg>>
        /\ TasksUnchanged /\ ProductsUnchanged /\ Atomic
        /\ last' = Exchange("POST /auth/logout", h, a.user, NoId, Absent, Absent, 200,
                            "Logged out successfully", Envelope, FALSE, TRUE)

\* POST /api/auth/logout
Logout == Answer("POST /auth/logout", "Logged out successfully", Envelope)

-----------------------------------------------------------------------------
(* User routes, mounted behind authenticateToken *)

UserIds == 1..MaxUsers

\* Values of a :id parameter: malformed, or well-formed (stored or not).
IdInputs(ids) == {BadId} \cup ids

EmptyBody == [email |-> Absent, password |-> Absent, role |-> Absent, isActive |-> Absent]

\* Bodies of PUT /api/users/:id that carry one field.
EmailBodies == {[EmptyBody EXCEPT !.email = e] : e \in {"demo@example.com", "Ann@x.io", "nope"}}
PasswordBodies == {[EmptyBody EXCEPT !.password = p] : p \in {"secret1", "abc"}}
RoleBodies == {[EmptyBody EXCEPT !.role = r] : r \in Roles \cup {"root"}}
ActiveBodies == {[EmptyBody EXCEPT !.isActive = b] : b \in {"true", "false"}}

\* The document after $set of the fields the body carries (cast by the
\* schema: the email is lowercased).  No save hook runs.
ApplyUserUpdate(doc, body) ==
    [doc EXCEPT
        !.email = IF body.email = Absent THEN @ ELSE ToLowerCase(body.email),
        !.password = IF body.password = Absent THEN @ ELSE Raw(body.password),
        !.role = IF body.role = Absent THEN @ ELSE body.role,
        !.isActive = IF body.isActive = Absent THEN @ ELSE body.isActive = "true"]

\* History kept for a user whose document an update touched.
RegAfterUpdate(r, id, body) ==
    IF body.password # Absent \/ body.isActive = "false" THEN Touch(r, id)
    ELSE IF body.email # Absent /\ ToLowerCase(body.email) # users[id].email
    THEN TouchEmail(r, id)
    ELSE r

\* GET /api/users
GetUsers ==
    \E h \in Headers :
        LET a == AuthenticateToken(h)
            g == RequireAdmin(a.user)
            route == "GET /users"
        IN
        /\ UsersUnchanged /\ TasksUnchanged /\ ProductsUnchanged /\ Atomic
        /\ last' = IF ~a.next THEN Rejected(route, h, NoId, a)
                   ELSE IF ~g.next THEN [Rejected(route, h, NoId, g) EXCEPT !.actor = a.user]
                   ELSE Exchange(route, h, a.user, NoId, Absent, Absent, 200, "",
                                 {"success", "data"}, FALSE, TRUE)

\* GET /api/users/:id
GetUser ==
    \E h \in Headers :
        LET a == AuthenticateToken(h)
            route == "GET /users/:id"
        IN
        /\ UsersUnchanged /\ TasksUnchanged /\ ProductsUnchanged /\ Atomic
        /\ IF ~a.next THEN last' = Rejected(route, h, NoId, a)
           ELSE \E id \in IdInputs(UserIds) :
                last' = IF id = BadId
                        THEN Thrown(route, h, a.user, id, Absent, Absent, CastError)
                        ELSE IF id \notin DOMAIN users
                        THEN Exchange(route, h, a.user, id, Absent, Absent, 404,
                                      "User not found", Envelope, FALSE, TRUE)
                        ELSE Exchange(route, h, a.user, id, Absent, Absent, 200, "",
                                      {"success", "data"}, FALSE, TRUE)

\* PUT /api/users/:id: User.findByIdAndUpdate(id, body, {runValidators: true})
PutUser(bodies) ==
    \E h \in Headers :
        LET a == AuthenticateToken(h)
            route == "PUT /users/:id"
            answer(x) == /\ last' = x
                         /\ UsersUnchanged
        IN
        /\ TasksUnchanged /\ ProductsUnchanged /\ Atomic
        /\ IF ~a.next THEN answer(Rejected(route, h, NoId, a))
           ELSE \E id \in IdInputs(UserIds), body \in bodies :
                LET failing == UserValidationErrors(body.email, body.password, body.role)
                IN
                IF id = BadId
                THEN answer(Thrown(route, h, a.user, id, Absent, Absent, CastError))
                ELSE IF failing # {}
                THEN answer(Thrown(route, h, a.user, id, Absent, Absent,
                                   ValidationError(JoinMessages(failing))))
                ELSE IF id \notin DOMAIN users
                THEN answer(Exchange(route, h, a.user, id, Absent, Absent, 404,
                                     "User not found", Envelope, FALSE, TRUE))
                ELSE IF body.email # Absent /\ FindByEmail(body.email) \ {id} # {}
                THEN answer(Thrown(route, h, a.user, id, Absent, Absent,
                                   DuplicateKey("email")))
                ELSE /\ users' = [users EXCEPT ![id] = ApplyUserUpdate(@, body)]
                     /\ reg' = RegAfterUpdate(reg, id, body)
                     /\ UNCHANGED <<nextUid, issued>>
                     /\ last' = Exchange(route, h, a.user, id, Absent, Absent, 200, "",
                                         {"success", "data"}, FALSE, TRUE)

DeleteUserCascade ==
    \E h \in Headers :
        LET a == AuthenticateToken(h)
            g == RequireAdmin(a.user)
        IN
        /\ a.next /\ g.next
        /\ \E id \in DOMAIN users :
            /\ users' = [u \in DOMAIN users \ {id} |-> users[u]]
            /\ reg' = Touch(reg, id)
            /\ tasks' = [t \in {x \in DOMAIN tasks : tasks[x].createdBy # id} |-> tasks[t]]
            /\ UNCHANGED <<nextUid, issued, nextTid>>
            /\ last' = Exchange("DELETE /users/:id", h, a.user, id, Absent, Absent, 200,
                                "User deleted successfully", Envelope, FALSE, TRUE)
        /\ ProductsUnchanged /\ Atomic

\* DELETE /api/users/:id
DeleteUser ==
    \E h \in Headers :
        LET a == AuthenticateToken(h)
            g == RequireAdmin(a.user)
            route == "DELETE /users/:id"
            answer(x) == /\ last' = x
                         /\ UsersUnchanged
        IN
        /\ TasksUnchanged /\ ProductsUnchanged /\ Atomic
        /\ IF ~a.next THEN answer(Rejected(route, h, NoId, a))
           ELSE IF ~g.next THEN answer([Rejected(route, h, NoId, g) EXCEPT !.actor = a.user])
           ELSE \E id \in IdInputs(UserIds) :
                IF id = BadId
                THEN answer(Thrown(route, h, a.user, id, Absent, Absent, CastError))
                ELSE IF id \notin DOMAIN users
                THEN answer(Exchange(route, h, a.user, id, Absent, Absent, 404,
                                     "User not found", Envelope, FALSE, TRUE))
                ELSE /\ users' = [u \in DOMAIN users \ {id} |-> users[u]]
                     /\ reg' = Touch(reg, id)
                     /\ UNCHANGED <<nextUid, issued>>
                     /\ last' = Exchange(route, h, a.user, id, Absent, Absent, 200,
                                         "User deleted successfully", Envelope, FALSE, TRUE)

-----------------------------------------------------------------------------
(* Settings routes, mounted behind authenticateToken *)

\* GET /api/settings
GetSettings == Answer("GET /settings", "", {"success", "data"})

\* A settings route that updates one field of the acting user's record with
\* User.findByIdAndUpdate(req.user._id, ..., {runValidators: true}).
UpdateOwn(route, failing, path, value) ==
    \E h \in Headers :
        LET a == AuthenticateToken(h) IN
        /\ TasksUnchanged /\ ProductsUnchanged /\ Atomic
        /\ IF ~a.next THEN last' = Rejected(route, h, NoId, a) /\ UsersUnchanged
           ELSE IF failing # {}
           THEN /\ last' = Thrown(route, h, a.user, NoId, Absent, Absent,
                                  ValidationError(JoinMessages(failing)))
                /\ UsersUnchanged
           ELSE /\ users' = [users EXCEPT ![a.user] =
                               IF path = "theme" THEN [@ EXCEPT !.theme = value]
                               ELSE [@ EXCEPT !.firstName = value]]
                /\ UNCHANGED <<nextUid, issued, reg>>
                /\ last' = Exchange(route, h, a.user, NoId, Absent, Absent, 200, "",
                                    {"success", "data"}, FALSE, TRUE)

\* PUT /api/settings with body {theme}
PutSettings(themes) ==
    \E theme \in themes :
        UpdateOwn("PUT /settings",
                  IF theme \in {"light", "dark"} THEN {} ELSE {"theme"}, "theme", theme)

\* PUT /api/settings/profile with body {firstName}
PutProfile(names) ==
    \E firstName \in names :
        UpdateOwn("PUT /settings/profile",
                  IF StrLen(firstName) > 50 THEN {"firstName"} ELSE {},
                  "firstName", firstName)

\* PUT /api/settings/password with body {currentPassword: cur, newPassword: new}
PutPassword(currents, news) ==
    \E h \in Headers :
        LET a == AuthenticateToken(h)
            route == "PUT /settings/password"
            sent(x, cur) == [x EXCEPT !.current = cur]
            answer(x) == /\ last' = x
                         /\ UsersUnchanged
        IN
        /\ TasksUnchanged /\ ProductsUnchanged /\ Atomic
        /\ IF ~a.next THEN answer(Rejected(route, h, NoId, a))
           ELSE \E cur \in currents, new \in news :
                IF cur = Absent
                THEN answer(sent(Thrown(route, h, a.user, NoId, Absent, new,
                                        IllegalArguments), cur))
                ELSE IF ~ComparePassword(users[a.user], cur)
                THEN answer(sent(Exchange(route, h, a.user, NoId, Absent, new, 400,
                                          "Current password is incorrect", Envelope,
                                          FALSE, TRUE), cur))
                ELSE IF new = Absent
                THEN answer(sent(Thrown(route, h, a.user, NoId, Absent, new,
                                        ValidationError("Password is required")), cur))
                ELSE IF StrLen(new) < 6
                THEN answer(sent(Thrown(route, h, a.user, NoId, Absent, new,
                                        ValidationError(PathMessage("password"))), cur))
                ELSE /\ users' = [users EXCEPT ![a.user] =
                                     UserPreSave([@ EXCEPT !.password = Raw(new)], TRUE)]
                     /\ reg' = Touch(reg, a.user)
                     /\ UNCHANGED <<nextUid, issued>>
                     /\ last' = sent(Exchange(route, h, a.user, NoId, Absent, new, 200,
                                              "Password updated successfully", Envelope,
                                              FALSE, TRUE), cur)

-----------------------------------------------------------------------------
(* Task model *)

Statuses == {"pending", "in-progress", "completed", "cancelled"}


StampBodyFirst(body, creator) == IF body.createdBy # NoId THEN body.createdBy ELSE creator

\* {...req.body, createdBy: req.user._id}: of the two createdBy keys the
\* later one, the acting user's id, is kept.
Stamp(body, creator) == creator

\* A task document: the stored fields the hooks and methods read or write.
\* completedAt is "null" or "date"; comments is the number of comments.
\* The other required fields (title, description, dueDate) are taken to be
\* present in every body: assignedTo stands for the required paths.
NewTask(body, creator) ==
    [status |-> IF body.status = Absent THEN "pending" ELSE body.status,
     progress |-> IF body.progress = NoNumber THEN 0 ELSE body.progress,
     completedAt |-> IF body.completedAt = Absent THEN "null" ELSE body.completedAt,
     comments |-> 0,
     assignedTo |-> body.assignedTo,
     createdBy |-> Stamp(body, creator)]

\* The paths of a task body the schema validators reject.
TaskValidationErrors(body, creating) ==
    (IF creating /\ body.assignedTo = NoId THEN {"assignedTo"} ELSE {})
    \cup (IF body.status # Absent /\ body.status \notin Statuses THEN {"status"} ELSE {})
    \cup (IF body.progress # NoNumber /\ (body.progress < 0 \/ body.progress > 100)
          THEN {"progress"} ELSE {})

\* taskSchema.pre("save"): set completedAt on completion, clear it otherwise.
TaskPreSave(doc) ==
    IF doc.status = "completed" /\ doc.completedAt = "null"
    THEN [doc EXCEPT !.completedAt = "date"]
    ELSE IF doc.status # "completed"
    THEN [doc EXCEPT !.completedAt = "null"]
    ELSE doc

Max(a, b) == IF a > b THEN a ELSE b
Min(a, b) == IF a < b THEN a ELSE b

\* taskSchema.methods.updateProgress, up to the save.
SetProgress(doc, progress) ==
    LET clamped == Max(0, Min(100, progress))
        d == [doc EXCEPT !.progress = clamped]
    IN IF clamped = 100 THEN [d EXCEPT !.status = "completed"]
       ELSE IF clamped > 0 THEN [d EXCEPT !.status = "in-progress"]
       ELSE d

\* The document after $set of the fields an update body carries.
ApplyTaskUpdate(doc, body) ==
    [doc EXCEPT
        !.status = IF body.status = Absent THEN @ ELSE body.status,
        !.progress = IF body.progress = NoNumber THEN @ ELSE body.progress,
        !.completedAt = IF body.completedAt = Absent THEN @ ELSE body.completedAt,
        !.assignedTo = IF body.assignedTo = NoId THEN @ ELSE body.assignedTo,
        !.createdBy = IF body.createdBy = NoId THEN @ ELSE body.createdBy]

TaskIds == 1..MaxTasks

EmptyTaskBody ==
    [assignedTo |-> NoId, status |-> Absent, progress |-> NoNumber, completedAt |-> Absent,
     createdBy |-> NoId]

\* Bodies that set at most one of status and progress, with any completedAt.
TaskFields ==
    {[EmptyTaskBody EXCEPT !.status = st, !.completedAt = c] :
        st \in Statuses \cup {"bogus", Absent}, c \in {Absent, "null", "date"}}
    \cup {[EmptyTaskBody EXCEPT !.progress = pr, !.completedAt = c] :
        pr \in {0, 50, 100, 150}, c \in {Absent, "date"}}

\* Bodies of POST /api/tasks: with the required paths, and one without.
NewTaskBodies == {[b EXCEPT !.assignedTo = 1] : b \in TaskFields} \cup {EmptyTaskBody}

-----------------------------------------------------------------------------
(* Task routes, mounted behind authenticateToken *)

\* GET /api/tasks
GetTasks == Answer("GET /tasks", "", {"success", "data"})

\* A route that looks a document up by :id and answers with it.
GetById(route, ids, store, missing) ==
    \E h \in Headers :
        LET a == AuthenticateToken(h) IN
        /\ UsersUnchanged /\ TasksUnchanged /\ ProductsUnchanged /\ Atomic
        /\ IF ~a.next THEN last' = Rejected(route, h, NoId, a)
           ELSE \E id \in IdInputs(ids) :
                last' = IF id = BadId
                        THEN Thrown(route, h, a.user, id, Absent, Absent, CastError)
                        ELSE IF id \notin DOMAIN store
                        THEN Exchange(route, h, a.user, id, Absent, Absent, 404,
                                      missing, Envelope, FALSE, TRUE)
                        ELSE Exchange(route, h, a.user, id, Absent, Absent, 200, "",
                                      {"success", "data"}, FALSE, TRUE)

\* GET /api/tasks/:id
GetTask == GetById("GET /tasks/:id", TaskIds, tasks, "Task not found")

\* POST /api/tasks: new Task({...body, createdBy: req.user._id}).save()
PostTask(bodies) ==
    \E h \in Headers :
        LET a == AuthenticateToken(h)
            route == "POST /tasks"
        IN
        /\ UsersUnchanged /\ ProductsUnchanged /\ Atomic
        /\ IF ~a.next THEN last' = Rejected(route, h, NoId, a) /\ TasksUnchanged
           ELSE \E body \in bodies :
                LET failing == TaskValidationErrors(body, TRUE) IN
                IF failing # {}
                THEN /\ last' = Thrown(route, h, a.user, NoId, Absent, Absent,
                                       ValidationError(JoinMessages(failing)))
                     /\ TasksUnchanged
                ELSE /\ nextTid <= MaxTasks
                     /\ tasks' = tasks @@ (nextTid :> TaskPreSave(NewTask(body, a.user)))
                     /\ nextTid' = nextTid + 1
                     /\ last' = [Exchange(route, h, a.user, nextTid, Absent, Absent, 201,
                                          "", {"success", "data"}, FALSE, TRUE)
                                    EXCEPT !.createdBy = body.createdBy]

\* PUT /api/tasks/:id: Task.findByIdAndUpdate(id, body, {runValidators: true})
PutTask(bodies) ==
    \E h \in Headers :
        LET a == AuthenticateToken(h)
            route == "PUT /tasks/:id"
            answer(x) == last' = x /\ TasksUnchanged
        IN
        /\ UsersUnchanged /\ ProductsUnchanged /\ Atomic
        /\ IF ~a.next THEN answer(Rejected(route, h, NoId, a))
           ELSE \E id \in IdInputs(TaskIds), body \in bodies :
                LET failing == TaskValidationErrors(body, FALSE) IN
                IF id = BadId
                THEN answer(Thrown(route, h, a.user, id, Absent, Absent, CastError))
                ELSE IF failing # {}
                THEN answer(Thrown(route, h, a.user, id, Absent, Absent,
                                   ValidationError(JoinMessages(failing))))
                ELSE IF id \notin DOMAIN tasks
                THEN answer(Exchange(route, h, a.user, id, Absent, Absent, 404,
                                     "Task not found", Envelope, FALSE, TRUE))
                ELSE /\ tasks' = [tasks EXCEPT ![id] = ApplyTaskUpdate(@, body)]
                     /\ UNCHANGED nextTid
                     /\ last' = Exchange(route, h, a.user, id, Absent, Absent, 200, "",
                                         {"success", "data"}, FALSE, TRUE)

DeleteTaskKeep ==
    \E h \in Headers :
        LET a == AuthenticateToken(h)
            route == "DELETE /tasks/:id"
        IN
        /\ UsersUnchanged /\ TasksUnchanged /\ ProductsUnchanged /\ Atomic
        /\ IF ~a.next THEN last' = Rejected(route, h, NoId, a)
           ELSE \E id \in IdInputs(TaskIds) :
                last' = IF id = BadId
                        THEN Thrown(route, h, a.user, id, Absent, Absent, CastError)
                        ELSE Exchange(route, h, a.user, id, Absent, Absent, 200,
                                      "Task deleted successfully", Envelope, FALSE, TRUE)

\* DELETE /api/tasks/:id
DeleteTask ==
    \E h \in Headers :
        LET a == AuthenticateToken(h)
            route == "DELETE /tasks/:id"
            answer(x) == last' = x /\ TasksUnchanged
        IN
        /\ UsersUnchanged /\ ProductsUnchanged /\ Atomic
        /\ IF ~a.next THEN answer(Rejected(route, h, NoId, a))
           ELSE \E id \in IdInputs(TaskIds) :
                IF id = BadId
                THEN answer(Thrown(route, h, a.user, id, Absent, Absent, CastError))
                ELSE IF id \notin DOMAIN tasks
                THEN answer(Exchange(route, h, a.user, id, Absent, Absent, 404,
                                     "Task not found", Envelope, FALSE, TRUE))
                ELSE /\ tasks' = [t \in DOMAIN tasks \ {id} |-> tasks[t]]
                     /\ UNCHANGED nextTid
                     /\ last' = Exchange(route, h, a.user, id, Absent, Absent, 200,
                                         "Task deleted successfully", Envelope, FALSE, TRUE)

\* A call of a model method on a stored document; no request is involved.
Called(method, id, ok) ==
    Exchange(method, NoHeader, NoId, id, Absent, Absent, IF ok THEN 0 ELSE 400,
             "", {}, FALSE, TRUE)

\* task.updateProgress(progress) on a stored task
UpdateProgress(inputs) ==
    \E id \in DOMAIN tasks, progress \in inputs :
        /\ tasks' = [tasks EXCEPT ![id] = TaskPreSave(SetProgress(@, progress))]
        /\ last' = Called("Task.updateProgress", id, TRUE)
        /\ UNCHANGED nextTid
        /\ UsersUnchanged /\ ProductsUnchanged /\ Atomic

\* task.addComment(userId, content) on a stored task; content "" fails the
\* required validator and nothing is saved.
AddComment(contents) ==
    \E id \in DOMAIN tasks, content \in contents :
        /\ IF content = ""
           THEN /\ last' = Called("Task.addComment", id, FALSE)
                /\ UNCHANGED tasks
           ELSE /\ tasks[id].comments < MaxComments
                /\ tasks' = [tasks EXCEPT ![id] =
                                TaskPreSave([@ EXCEPT !.comments = @ + 1])]
                /\ last' = Called("Task.addComment", id, TRUE)
        /\ UNCHANGED nextTid
        /\ UsersUnchanged /\ ProductsUnchanged /\ Atomic

-----------------------------------------------------------------------------
(* Product model *)

\* A stored image is [id, isPrimary]: id is the subdocument _id.  A stored
\* product is [sku, stock, images].  name stands for the required paths
\* (name, description, price, category), taken to be valid when present.

ToUpperCase(sku) == IF sku = "s1" THEN "S1" ELSE sku

\* An image of a request body: [url, isPrimary].
Image(url, isPrimary) == [url |-> url, isPrimary |-> isPrimary]

\* The subdocuments made from the images of a body, _ids in list order.
CastImages(images) ==
    [i \in 1..Len(images) |-> [id |-> i, isPrimary |-> images[i].isPrimary]]

Primaries(images) == {i \in 1..Len(images) : images[i].isPrimary}

PreSaveSkip(images) == images

\* productSchema.pre("save"): with more than one primary image, only the
\* image at index 0 stays (or becomes) primary.
ProductPreSave(images) ==
    IF Len(images) > 0 /\ Cardinality(Primaries(images)) > 1
    THEN [i \in 1..Len(images) |-> [images[i] EXCEPT !.isPrimary = (i = 1)]]
    ELSE images

\* productSchema.virtual("primaryImage"): the _id of the image shown.
PrimaryImage(images) ==
    IF Primaries(images) # {}
    THEN images[CHOOSE i \in Primaries(images) : \A j \in Primaries(images) : i <= j].id
    ELSE IF Len(images) > 0 THEN images[1].id ELSE NoId

NewProduct(body, creator) ==
    [sku |-> ToUpperCase(body.sku),
     stock |-> IF body.stock = NoNumber THEN 0 ELSE body.stock,
     images |-> IF body.hasImages THEN CastImages(body.images) ELSE <<>>,
     createdBy |-> Stamp(body, creator)]

\* The paths of a product body the schema validators reject.
ProductValidationErrors(body, creating) ==
    (IF creating /\ body.name = Absent THEN {"name"} ELSE {})
    \cup (IF body.stock # NoNumber /\ body.stock < 0 THEN {"stock"} ELSE {})
    \cup (IF body.hasImages /\ \E i \in 1..Len(body.images) : body.images[i].url = Absent
          THEN {"url"} ELSE {})

\* The document after $set of the fields an update body carries.
ApplyProductUpdate(doc, body) ==
    [doc EXCEPT
        !.stock = IF body.stock = NoNumber THEN @ ELSE body.stock,
        !.images = IF body.hasImages THEN CastImages(body.images) ELSE @,
        !.createdBy = IF body.createdBy = NoId THEN @ ELSE body.createdBy]

ProductIds == 1..MaxProducts

\* The image lists of request bodies: every list of flags up to MaxImages.
ImageLists(url) ==
    UNION {[1..n -> {Image(url, TRUE), Image(url, FALSE)}] : n \in 0..MaxImages}

\* hasImages tells whether the body carries an images field at all.
EmptyProductBody ==
    [name |-> Absent, sku |-> Absent, stock |-> NoNumber, hasImages |-> FALSE, images |-> <<>>,
     createdBy |-> NoId]

ProductFields ==
    {EmptyProductBody}
    \cup {[EmptyProductBody EXCEPT !.hasImages = TRUE, !.images = imgs] :
            imgs \in ImageLists("u") \cup {<<Image(Absent, TRUE)>>}}
    \cup {[EmptyProductBody EXCEPT !.stock = n] : n \in {1, -5}}

\* Bodies of POST /api/products: with the required paths, and one without.
NewProductBodies ==
    {[b EXCEPT !.name = "Lamp", !.sku = "s1"] : b \in ProductFields} \cup {EmptyProductBody}

\* doc.save() of a stored product: the hook runs, the document is written.
SaveProduct(id, doc) ==
    /\ products' = (id :> [doc EXCEPT !.images = ProductPreSave(@)]) @@ products
    /\ saved' = [before |-> doc.images, after |-> ProductPreSave(doc.images)]

-----------------------------------------------------------------------------
(* Product routes, mounted behind authenticateToken, and model methods *)

\* GET /api/products
GetProducts == Answer("GET /products", "", {"success", "data"})

\* GET /api/products/:id
GetProduct == GetById("GET /products/:id", ProductIds, products, "Product not found")

\* POST /api/products: new Product({...body, createdBy: req.user._id}).save()
PostProduct(bodies) ==
    \E h \in Headers :
        LET a == AuthenticateToken(h)
            route == "POST /products"
        IN
        /\ UsersUnchanged /\ TasksUnchanged /\ Atomic
        /\ IF ~a.next THEN last' = Rejected(route, h, NoId, a) /\ ProductsUnchanged
           ELSE \E body \in bodies :
                LET failing == ProductValidationErrors(body, TRUE) IN
                IF failing # {}
                THEN /\ last' = Thrown(route, h, a.user, NoId, Absent, Absent,
                                       ValidationError(JoinMessages(failing)))
                     /\ ProductsUnchanged
                ELSE IF \E q \in DOMAIN products : products[q].sku = ToUpperCase(body.sku)
                THEN /\ last' = Thrown(route, h, a.user, NoId, Absent, Absent,
                                       DuplicateKey("sku"))
                     /\ ProductsUnchanged
                ELSE /\ nextPid <= MaxProducts
                     /\ SaveProduct(nextPid, NewProduct(body, a.user))
                     /\ nextPid' = nextPid + 1
                     /\ last' = [Exchange(route, h, a.user, nextPid, Absent, Absent, 201,
                                          "", {"success", "data"}, FALSE, TRUE)
                                    EXCEPT !.createdBy = body.createdBy]

\* PUT /api/products/:id: Product.findByIdAndUpdate(id, body, {runValidators: true})
PutProduct(bodies) ==
    \E h \in Headers :
        LET a == AuthenticateToken(h)
            route == "PUT /products/:id"
            answer(x) == last' = x /\ ProductsUnchanged
        IN
        /\ UsersUnchanged /\ TasksUnchanged /\ Atomic
        /\ IF ~a.next THEN answer(Rejected(route, h, NoId, a))
           ELSE \E id \in IdInputs(ProductIds), body \in bodies :
                LET failing == ProductValidationErrors(body, FALSE) IN
                IF id = BadId
                THEN answer(Thrown(route, h, a.user, id, Absent, Absent, CastError))
                ELSE IF failing # {}
                THEN answer(Thrown(route, h, a.user, id, Absent, Absent,
                                   ValidationError(JoinMessages(failing))))
                ELSE IF id \notin DOMAIN products
                THEN answer(Exchange(route, h, a.user, id, Absent, Absent, 404,
                                     "Product not found", Envelope, FALSE, TRUE))
                ELSE /\ products' = [products EXCEPT ![id] = ApplyProductUpdate(@, body)]
                     /\ UNCHANGED <<nextPid, saved>>
                     /\ last' = Exchange(route, h, a.user, id, Absent, Absent, 200, "",
                                         {"success", "data"}, FALSE, TRUE)

\* DELETE /api/products/:id
DeleteProduct ==
    \E h \in Headers :
        LET a == AuthenticateToken(h)
            route == "DELETE /products/:id"
            answer(x) == last' = x /\ ProductsUnchanged
        IN
        /\ UsersUnchanged /\ TasksUnchanged /\ Atomic
        /\ IF ~a.next THEN answer(Rejected(route, h, NoId, a))
           ELSE \E id \in IdInputs(ProductIds) :
                IF id = BadId
                THEN answer(Thrown(route, h, a.user, id, Absent, Absent, CastError))
                ELSE IF id \notin DOMAIN products
                THEN answer(Exchange(route, h, a.user, id, Absent, Absent, 404,
                                     "Product not found", Envelope, FALSE, TRUE))
                ELSE /\ products' = [q \in DOMAIN products \ {id} |-> products[q]]
                     /\ UNCHANGED <<nextPid, saved>>
                     /\ last' = Exchange(route, h, a.user, id, Absent, Absent, 200,
                                         "Product deleted successfully", Envelope,
                                         FALSE, TRUE)

\* product.updateStock(quantity) on a stored product
UpdateStock(quantities) ==
    \E id \in DOMAIN products, quantity \in quantities :
        /\ products[id].stock + quantity <= MaxStock
        /\ SaveProduct(id, [products[id] EXCEPT !.stock = Max(0, @ + quantity)])
        /\ last' = Called("Product.updateStock", id, TRUE)
        /\ UNCHANGED nextPid
        /\ UsersUnchanged /\ TasksUnchanged /\ Atomic

\* The _id a pushed subdocument gets: one no image of the list has.
FreshImageId(images) ==
    CHOOSE n \in 1..(Len(images) + 1) : \A i \in 1..Len(images) : images[i].id # n

\* product.addImage(imageData) on a stored product; an image without url
\* fails the required validator and nothing is saved.
AddImage(inputs) ==
    \E id \in DOMAIN products, imageData \in inputs :
        LET images == products[id].images
            cleared == IF imageData.isPrimary
                       THEN [i \in 1..Len(images) |-> [images[i] EXCEPT !.isPrimary = FALSE]]
                       ELSE images
            pushed == Append(cleared, [id |-> FreshImageId(images),
                                       isPrimary |-> imageData.isPrimary])
        IN
        /\ IF imageData.url = Absent
           THEN /\ last' = Called("Product.addImage", id, FALSE)
                /\ UNCHANGED <<products, saved>>
           ELSE /\ Len(images) < MaxImages
                /\ SaveProduct(id, [products[id] EXCEPT !.images = pushed])
                /\ last' = Called("Product.addImage", id, TRUE)
        /\ UNCHANGED nextPid
        /\ UsersUnchanged /\ TasksUnchanged /\ Atomic

\* product.removeImage(imageId) on a stored product
RemoveImage ==
    \E id \in DOMAIN products, imageId \in 1..MaxImages :
        /\ SaveProduct(id, [products[id] EXCEPT
                               !.images = SelectSeq(@, LAMBDA img : img.id # imageId)])
        /\ last' = Called("Product.removeImage", id, TRUE)
        /\ UNCHANGED nextPid
        /\ UsersUnchanged /\ TasksUnchanged /\ Atomic

-----------------------------------------------------------------------------
(* Specification of the credential paths: registration, login, password     *)
(* change and reset, user update and removal.  Registered users take the    *)
(* default role; the seeded user is the admin.                              *)

NoExchange == Exchange("none", NoHeader, NoId, NoId, Absent, Absent, 0, "", {}, FALSE, FALSE)

EmptyStore == [x \in {} |-> x]

NoSave == [before |-> <<>>, after |-> <<>>]

\* The slots of the requests in flight, and the value of a free slot.
Slots == 1..MaxInFlight
Idle == [kind |-> "idle", name |-> <<>>, email |-> Absent, password |-> Absent,
         role |-> Absent]

Init ==
    /\ users = EmptyStore
    /\ nextUid = 1
    /\ issued = {}
    /\ reg = [u \in UserIds |-> NoReg]
    /\ tasks = EmptyStore
    /\ nextTid = 1
    /\ products = EmptyStore
    /\ nextPid = 1
    /\ saved = NoSave
    /\ pending = [s \in Slots |-> Idle]
    /\ last = NoExchange

Next ==
    \/ SeedDemoUser
    \/ Register({<<"Ann", "Lee">>}, RawEmails, {"secret1", "abc"}, {Absent})
    \/ Login({"demo@example.com", "Ann@x.io", "a+b@x.io"}, {"secret1", "password123", ""})
    \/ PutUser(EmailBodies \cup PasswordBodies \cup ActiveBodies)
    \/ DeleteUser
    \/ PutPassword({"secret1", "password123", Absent}, {"password123", "abc", Absent})

Spec == Init /\ [][Next]_vars

\* One account, enough to hold a token for the protected routes.
RegisterOne == Register({<<"Ann", "Lee">>}, {"Ann@x.io"}, {"secret1"}, {Absent})

\* Specification of the task paths
TaskNext ==
    \/ RegisterOne
    \/ PostTask(NewTaskBodies)
    \/ PutTask(TaskFields)
    \/ DeleteTask
    \/ UpdateProgress({-10, 0, 50, 100, 150})
    \/ AddComment({"", "ok"})

TaskSpec == Init /\ [][TaskNext]_vars

\* Specification of the product paths
ProductNext ==
    \/ RegisterOne
    \/ PostProduct(NewProductBodies)
    \/ PutProduct(ProductFields)
    \/ DeleteProduct
    \/ UpdateStock({-1, 1})
    \/ AddImage({Image("u", TRUE), Image("u", FALSE), Image(Absent, FALSE)})
    \/ RemoveImage

ProductSpec == Init /\ [][ProductNext]_vars

\* Specification of the role guard: accounts of every role, role changes,
\* and the admin-only routes.
RoleNext ==
    \/ SeedDemoUser
    \/ Register({<<"Ann", "Lee">>}, {"Ann@x.io"}, {"secret1"}, {Absent, "manager", "admin"})
    \/ Login({"demo@example.com", "Ann@x.io"}, {"secret1", "password123"})
    \/ PutUser(RoleBodies \cup ActiveBodies)
    \/ GetUsers
    \/ DeleteUser

RoleSpec == Init /\ [][RoleNext]_vars

\* Specification of the authentication gate: every protected route, each
\* with one request body.  The stores vary through create, delete and the
\* change of a password; the other update bodies carry the values already
\* stored.
GateNext ==
    \/ Register({<<"Ann", "Lee">>}, {"Ann@x.io"}, {"secret1"}, {"admin"})
    \/ GetMe
    \/ Logout
    \/ GetUsers
    \/ GetUser
    \/ PutUser({[EmptyBody EXCEPT !.role = "admin"]})
    \/ DeleteUser
    \/ GetTasks
    \/ GetTask
    \/ PostTask({[EmptyTaskBody EXCEPT !.assignedTo = 1]})
    \/ PutTask({[EmptyTaskBody EXCEPT !.status = "pending"]})
    \/ DeleteTask
    \/ GetProducts
    \/ GetProduct
    \/ PostProduct({[EmptyProductBody EXCEPT !.name = "Lamp", !.sku = "s1"]})
    \/ PutProduct({[EmptyProductBody EXCEPT !.stock = 0]})
    \/ DeleteProduct
    \/ GetSettings
    \/ PutSettings({"light"})
    \/ PutProfile({"Ann"})
    \/ PutPassword({"password123"}, {"secret1"})

GateSpec == Init /\ [][GateNext]_vars

\* Specification of the password reset: an account, reset tokens issued
\* for it, resets with every token handed out, deletion of the account, and
\* one protected route.
ResetNext ==
    \/ Register({<<"Ann", "Lee">>}, {"Ann@x.io"}, {"secret1"}, {"admin"})
    \/ Login({"Ann@x.io"}, {"secret1", "password123"})
    \/ ForgotPassword({"Ann@x.io", "a+b@x.io", "nope"})
    \/ ResetPassword({"password123", "abc"})
    \/ DeleteUser
    \/ GetMe

ResetSpec == Init /\ [][ResetNext]_vars

\* The errors handed to errorHandler: every combination of name, code, own
\* statusCode and message; a duplicate key error carries the duplicated
\* field, a validation error the messages of its failing paths.
ErrorMessages(n) ==
    UNION {[1..k -> {"First name is required", "Please enter a valid email"}] : k \in 1..n}

Errors ==
    {[name |-> name, code |-> code, statusCode |-> statusCode, message |-> message,
      keyValue |-> keyValue, errors |-> errors] :
        name \in {"CastError", "ValidationError", "JsonWebTokenError",
                  "TokenExpiredError", "MongoServerError", "MulterError", "Error"},
        code \in {"", "11000", "LIMIT_FILE_SIZE", "LIMIT_UNEXPECTED_FILE"},
        statusCode \in {0, 403, 503},
        message \in {"", "boom"},
        keyValue \in {"", "email", "sku"},
        errors \in {<<>>} \cup ErrorMessages(MaxErrors)}

\* An error as a library raises it: keyValue with code 11000 only, errors
\* with the name ValidationError only.
WellFormed(err) ==
    /\ err.keyValue # "" <=> err.code = "11000"
    /\ err.errors # <<>> <=> err.name = "ValidationError"

\* next(err): errorHandler answers for an error forwarded to it.
HandleError(errs) ==
    \E err \in errs :
        /\ WellFormed(err)
        /\ last' = Thrown("errorHandler", NoHeader, NoId, NoId, Absent, Absent, err)
        /\ UsersUnchanged /\ TasksUnchanged /\ ProductsUnchanged /\ Atomic

\* An unexpected fault of a persistence call (the connection to the database
\* is lost): the call rejects with an error of no category.
Fault == Err("MongoNetworkError", "", 0, "connection closed")

\* A persistence call of a handler wrapped in asyncHandler fails: the
\* rejection is passed to next and errorHandler answers. The open routes
\* carry no header; the others were let through by authenticateToken and,
\* where the route has one, by the role guard. Nothing is stored.
FaultInHandler(open, guarded, admin) ==
    \E route \in open \cup guarded \cup admin, h \in Headers :
        /\ IF route \in open THEN h = NoHeader
           ELSE /\ AuthenticateToken(h).next
                /\ route \in admin => RequireAdmin(AuthenticateToken(h).user).next
        /\ last' = Thrown(route, h, AuthenticateToken(h).user, NoId, Absent, Absent, Fault)
        /\ UsersUnchanged /\ TasksUnchanged /\ ProductsUnchanged /\ Atomic

\* User.findById fails inside authenticateToken: its catch block answers
\* 500 "Authentication error" itself, the handler is not run.
FaultInAuthenticate(routes) ==
    \E route \in routes, h \in Headers :
        /\ h.kind # "none"
        /\ JwtVerify(h).error = "none"
        /\ last' = [Rejected(route, h, NoId, Deny(500, "Authentication error"))
                        EXCEPT !.err = Fault]
        /\ UsersUnchanged /\ TasksUnchanged /\ ProductsUnchanged /\ Atomic

\* User.findById or user.save fails inside the try block of reset-password:
\* its catch block answers 400 as for a bad token.
FaultInResetPassword(passwords) ==
    \E h \in Headers, p \in passwords :
        /\ h.kind # "none" /\ StrLen(p) >= 6
        /\ JwtVerify(h).error = "none"
        /\ JwtVerify(h).type = "password-reset"
        /\ last' = [Exchange("reset-password", h, NoId, h.userId, Absent, p, 400,
                             "Invalid or expired reset token", Envelope, FALSE, TRUE)
                        EXCEPT !.err = Fault]
        /\ UsersUnchanged /\ TasksUnchanged /\ ProductsUnchanged /\ Atomic

\* Specification of the requests during which a persistence call fails
FaultNext ==
    \/ Register({<<"Ann", "Lee">>}, {"Ann@x.io", "a+b@x.io"}, {"secret1"}, {"admin", Absent})
    \/ Login({"Ann@x.io", "a+b@x.io"}, {"secret1"})
    \/ ForgotPassword({"Ann@x.io", "a+b@x.io"})
    \/ FaultInHandler({"register", "login", "forgot-password"},
                      {"GET /users/:id", "PUT /users/:id", "GET /tasks", "POST /tasks",
                       "PUT /tasks/:id", "DELETE /tasks/:id", "GET /products",
                       "POST /products", "PUT /products/:id", "DELETE /products/:id",
                       "GET /settings", "PUT /settings", "PUT /settings/profile",
                       "PUT /settings/password"},
                      {"GET /users", "DELETE /users/:id"})
    \/ FaultInAuthenticate({"GET /users", "GET /auth/me", "POST /tasks", "DELETE /products/:id"})
    \/ FaultInResetPassword({"password123"})

FaultSpec == Init /\ [][FaultNext]_vars

NoUniqueIndex(email) == FALSE

\* The unique index on the email path: an insert of a document whose email
\* another document holds is refused with a duplicate key error.
DuplicateEmail(email) == \E u \in DOMAIN users : users[u].email = email

\* POST /api/auth/register up to its first await that another request can
\* overtake: body validation and User.findByEmail.  A request that passes
\* both stays in flight, holding its body, until its save.
BeginRegister(names, emails, passwords, roles) ==
    \E n \in names, e \in emails, p \in passwords, r \in roles :
        LET invalid == \/ StrLen(n[1]) < 2 \/ StrLen(n[1]) > 50
                       \/ StrLen(n[2]) < 2 \/ StrLen(n[2]) > 50
                       \/ ~IsEmail(e)
                       \/ StrLen(p) < 6
                       \/ (r # Absent /\ r \notin Roles)
        IN
        /\ UsersUnchanged /\ TasksUnchanged /\ ProductsUnchanged
        /\ IF invalid
           THEN /\ last' = ValidationFailed("register", NoHeader, e, p)
                /\ Atomic
           ELSE IF FindByEmail(NormalizeEmail(e)) # {}
           THEN /\ last' = Exchange("register", NoHeader, NoId, NoId, e, p, 400,
                                    "User with this email already exists", Envelope,
                                    FALSE, TRUE)
                /\ Atomic
           ELSE \E s \in Slots :
                /\ pending[s] = Idle
                /\ pending' = [pending EXCEPT ![s] =
                        [kind |-> "register", name |-> n, email |-> e,
                         password |-> p, role |-> r]]
                /\ UNCHANGED last

\* The rest of POST /api/auth/register: user.save() (validation, the hash
\* hook, the insert under the unique index), the save of lastLogin, the
\* token and the response.  The second save writes lastLogin only, so an
\* update of the new user that falls between the two saves leaves the same
\* store as one that follows them.
FinishRegister ==
    \E s \in Slots :
        LET q == pending[s]
            email == ToLowerCase(NormalizeEmail(q.email))
            role == IF q.role = Absent THEN "user" ELSE q.role
            failing == UserValidationErrors(email, q.password, role)
            created == UserPreSave([firstName |-> q.name[1], email |-> email,
                                    password |-> Raw(q.password),
                                    role |-> role, isActive |-> TRUE,
                                    lastLogin |-> FALSE, theme |-> "light"], TRUE)
            stamped == UserPreSave([created EXCEPT !.lastLogin = TRUE], FALSE)
        IN
        /\ q.kind = "register"
        /\ pending' = [pending EXCEPT ![s] = Idle]
        /\ TasksUnchanged /\ ProductsUnchanged
        /\ IF failing # {}
           THEN /\ last' = Thrown("register", NoHeader, NoId, NoId, q.email, q.password,
                                  ValidationError(JoinMessages(failing)))
                /\ UsersUnchanged
           ELSE IF DuplicateEmail(email)
           THEN /\ last' = Thrown("register", NoHeader, NoId, NoId, q.email, q.password,
                                  DuplicateKey("email"))
                /\ UsersUnchanged
           ELSE /\ nextUid <= MaxUsers
                /\ users' = users @@ (nextUid :> stamped)
                /\ nextUid' = nextUid + 1
                /\ issued' = issued \cup {AccessToken(nextUid)}
                /\ reg' = [reg EXCEPT ![nextUid] =
                              [email |-> q.email, plain |-> q.password, hist |-> "intact"]]
                /\ last' = Exchange("register", NoHeader, nextUid, NoId, q.email,
                                    q.password, 201, "User registered successfully",
                                    {"success", "message", "data"}, TRUE, TRUE)

\* seedDemoUser up to the answer of User.findOne: a run that finds the demo
\* user returns, one that finds none goes on to User.create.
BeginSeed ==
    /\ UsersUnchanged /\ TasksUnchanged /\ ProductsUnchanged
    /\ IF \E u \in DOMAIN users : users[u].email = DemoEmail
       THEN /\ last' = Exchange("seed", NoHeader, NoId, NoId, DemoEmail, DemoPassword,
                                0, "", {}, FALSE, TRUE)
            /\ Atomic
       ELSE \E s \in Slots :
            /\ pending[s] = Idle
            /\ pending' = [pending EXCEPT ![s] =
                    [kind |-> "seed", name |-> <<"Demo", "Admin">>, email |-> DemoEmail,
                     password |-> DemoPassword, role |-> "admin"]]
            /\ UNCHANGED last

\* User.create of seedDemoUser.  When the insert is refused the rejection
\* reaches the catch of the connection promise, which ends the process: the
\* requests in flight are dropped.
FinishSeed ==
    \E s \in Slots :
        LET q == pending[s]
            seeded == Exchange("seed", NoHeader, NoId, NoId, DemoEmail, DemoPassword,
                               0, "", {}, FALSE, TRUE)
        IN
        /\ q.kind = "seed"
        /\ TasksUnchanged /\ ProductsUnchanged
        /\ IF DuplicateEmail(q.email)
           THEN /\ last' = [seeded EXCEPT !.err = DuplicateKey("email")]
                /\ pending' = [t \in Slots |-> Idle]
                /\ UsersUnchanged
           ELSE /\ nextUid <= MaxUsers
                /\ users' = users @@ (nextUid :>
                        UserPreSave([firstName |-> q.name[1], email |-> q.email,
                                     password |-> Raw(q.password),
                                     role |-> q.role, isActive |-> TRUE,
                                     lastLogin |-> FALSE, theme |-> "light"], TRUE))
                /\ nextUid' = nextUid + 1
                /\ UNCHANGED <<issued, reg>>
                /\ last' = seeded
                /\ pending' = [pending EXCEPT ![s] = Idle]

\* Specification of concurrent registration, seeding and user update: a
\* register request and a seeding run take two steps each, and any step of
\* another request may fall between them.
RaceNext ==
    \/ BeginRegister({<<"Ann", "Lee">>}, {"Ann@x.io", "demo@example.com", "nope"},
                     {"secret1"}, {Absent})
    \/ FinishRegister
    \/ BeginSeed
    \/ FinishSeed
    \/ PutUser(EmailBodies)

RaceSpec == Init /\ [][RaceNext]_vars

\* Specification of the routes that take an :id, with the POST routes that
\* fill the collections.  The PUT bodies are one that passes validation and
\* one that fails it.
ResourceNext ==
    \/ Register({<<"Ann", "Lee">>}, {"Ann@x.io", "a+b@x.io"}, {"secret1"}, {"admin"})
    \/ GetUser
    \/ PutUser({[EmptyBody EXCEPT !.role = "admin"], [EmptyBody EXCEPT !.email = "nope"]})
    \/ DeleteUser
    \/ GetTask
    \/ PostTask({[EmptyTaskBody EXCEPT !.assignedTo = 1]})
    \/ PutTask({[EmptyTaskBody EXCEPT !.status = "pending"],
                [EmptyTaskBody EXCEPT !.status = "bogus"]})
    \/ DeleteTask
    \/ GetProduct
    \/ PostProduct({[EmptyProductBody EXCEPT !.name = "Lamp", !.sku = "s1"]})
    \/ PutProduct({[EmptyProductBody EXCEPT !.stock = 1],
                   [EmptyProductBody EXCEPT !.stock = -5]})
    \/ DeleteProduct

ResourceSpec == Init /\ [][ResourceNext]_vars

\* Specification of user removal: two administrators, the tasks and
\* products they create, and DELETE /api/users/:id.
RemovalNext ==
    \/ Register({<<"Ann", "Lee">>}, {"Ann@x.io", "demo@example.com"}, {"secret1"}, {"admin"})
    \/ PostTask({[EmptyTaskBody EXCEPT !.assignedTo = u] : u \in UserIds})
    \/ PostProduct({[EmptyProductBody EXCEPT !.name = "Lamp", !.sku = "s1"]})
    \/ DeleteTask
    \/ DeleteUser

RemovalSpec == Init /\ [][RemovalNext]_vars

\* Specification of the create routes: two users, and bodies that carry no
\* createdBy, the acting user's id, or the id of somebody else.
CreateNext ==
    \/ Register({<<"Ann", "Lee">>}, {"Ann@x.io", "demo@example.com"}, {"secret1"}, {Absent})
    \/ PostTask({[EmptyTaskBody EXCEPT !.assignedTo = 1, !.createdBy = c] :
                    c \in {NoId} \cup UserIds})
    \/ PostProduct({[EmptyProductBody EXCEPT !.name = "Lamp", !.sku = "s1", !.createdBy = c] :
                    c \in {NoId} \cup UserIds})
    \/ DeleteTask
    \/ DeleteProduct

CreateSpec == Init /\ [][CreateNext]_vars

\* product.save() of a stored product whose image list was set in memory
\* to n images, any of them flagged primary.
SaveImages(n) ==
    \E p \in DOMAIN products, k \in 0..n :
        \E flags \in [1..k -> BOOLEAN] :
            /\ SaveProduct(p, [products[p] EXCEPT !.images =
                                  [i \in 1..k |-> [id |-> i, isPrimary |-> flags[i]]]])
            /\ UNCHANGED nextPid
            /\ last' = Called("save", p, TRUE)
            /\ UsersUnchanged /\ TasksUnchanged /\ Atomic

\* Specification of the save hook of the product model
SaveNext ==
    \/ RegisterOne
    \/ PostProduct(NewProductBodies)
    \/ SaveImages(MaxSaved)

SaveSpec == Init /\ [][SaveNext]_vars

\* Specification of the routes that answer with user data: the users
\* themselves, and the tasks and products that refer to them.
ProfileNext ==
    \/ Register({<<"Ann", "Lee">>}, {"Ann@x.io", "demo@example.com"}, {"secret1"}, {"admin"})
    \/ Login({"Ann@x.io"}, {"secret1"})
    \/ GetMe
    \/ GetUsers
    \/ GetUser
    \/ PutUser({[EmptyBody EXCEPT !.password = "password123"]})
    \/ PutProfile({"Ann"})
    \/ GetTasks
    \/ GetTask
    \/ PostTask({[EmptyTaskBody EXCEPT !.assignedTo = 1]})
    \/ PutTask({[EmptyTaskBody EXCEPT !.status = "pending"]})
    \/ GetProducts
    \/ GetProduct
    \/ PostProduct({[EmptyProductBody EXCEPT !.name = "Lamp", !.sku = "s1"]})
    \/ PutProduct({[EmptyProductBody EXCEPT !.stock = 0]})

ProfileSpec == Init /\ [][ProfileNext]_vars

\* Specification of the error normalizer
ErrorNext == HandleError(Errors)

ErrorSpec == Init /\ [][ErrorNext]_vars

-----------------------------------------------------------------------------
(* Claims about credentials *)

\* The users whose registration matches the email and password of the last
\* login request and whose history since registration is one of hists.
RegisteredAs(hists) ==
    {u \in UserIds : /\ reg[u].hist \in hists
                     /\ NormalizeEmail(reg[u].email) = NormalizeEmail(last.email)
                     /\ reg[u].plain = last.password}

\* Every user whose password has not been changed since registration is
\* stored with a password value other than the plaintext registered with.
StoredDiffersFromPlaintext ==
    \A u \in UserIds :
        reg[u].hist \in {"intact", "moved"} =>
            u \in DOMAIN users /\ users[u].password # Raw(reg[u].plain)

\* C1 as stated: for every successful registration the stored password
\* differs from the submitted plaintext, and a later login with the same
\* email and plaintext, with no password change, deactivation or deletion in
\* between, returns 200 with a token.
C1_LoginAfterRegister ==
    /\ StoredDiffersFromPlaintext
    /\ (last.route = "login" /\ RegisteredAs({"intact", "moved"}) # {})
            => (last.status = 200 /\ last.token)

\* C1 amended: as C1, with no password change, email change, deactivation
\* or deletion between the registration and the login.
C1_LoginAfterRegisterSameEmail ==
    /\ StoredDiffersFromPlaintext
    /\ (last.route = "login" /\ RegisteredAs({"intact"}) # {})
            => (last.status = 200 /\ last.token)

\* A login answered 200 with a token for a user registered with that email
\* and password, whose stored password is not the plaintext.
C1_Witness ==
    /\ last.route = "login" /\ last.status = 200 /\ last.token
    /\ \E u \in RegisteredAs({"intact"}) :
            u \in DOMAIN users /\ users[u].password # Raw(reg[u].plain)

\* C2: every stored user's password field holds a hash, never a plaintext
\* value a client submitted.
C2_PasswordsStoredHashed ==
    \A u \in DOMAIN users : users[u].password.kind = "bcrypt"

\* The body of the last login request passed the route's validators.
LoginBodyValid(x) == x.route = "login" /\ IsEmail(x.email) /\ x.password # ""

\* The stored users a login request with this email looks up.
Known(x) == FindByEmail(NormalizeEmail(x.email))

GenericDenial(x) ==
    x.status = 401 /\ x.message = "Invalid email or password" /\ x.keys = Envelope

\* C5: a login with an unknown email and a login with a known email but a
\* wrong password get the same response (401, the generic message, the
\* same body shape), and neither changes stored state.
C5_LoginFailuresIdentical ==
    [][(/\ LoginBodyValid(last')
        /\ \/ Known(last') = {}
           \/ \E u \in Known(last') : ~ComparePassword(users[u], last'.password))
       => (/\ GenericDenial(last')
           /\ UNCHANGED <<users, nextUid, reg, tasks, products>>)]_vars

\* C6: a login for a deactivated account gets the generic invalid-credentials
\* 401 response, whether or not the password is correct.
C6_DeactivatedLoginGeneric ==
    [][(/\ LoginBodyValid(last')
        /\ \E u \in Known(last') : ~users[u].isActive)
       => GenericDenial(last')]_vars

-----------------------------------------------------------------------------
(* Claims about tasks, checked under TaskSpec *)

\* C7: in every state reachable through POST /api/tasks, PUT /api/tasks/:id
\* and Task.updateProgress, a stored task with progress = 100 has status
\* completed, and a stored task with progress > 0 does not have status
\* pending.
C7_ProgressStatusCoupling ==
    \A t \in DOMAIN tasks :
        /\ tasks[t].progress = 100 => tasks[t].status = "completed"
        /\ tasks[t].progress > 0 => tasks[t].status # "pending"

\* C8: in every stored task reachable through task create, PUT
\* /api/tasks/:id, addComment and updateProgress, completedAt is non-null
\* exactly when status is completed.
C8_CompletedAtIffCompleted ==
    \A t \in DOMAIN tasks :
        tasks[t].completedAt # "null" <=> tasks[t].status = "completed"

-----------------------------------------------------------------------------
(* Claims about products, checked under ProductSpec *)

Ids(images) == [i \in 1..Len(images) |-> images[i].id]

\* C9: for a product whose image list has N images flagged primary, after a
\* save the list has exactly one image flagged primary if N >= 1 and none if
\* N = 0; the number and order of the images is unchanged.
C9_SaveLeavesOnePrimary ==
    LET N == Cardinality(Primaries(saved.before)) IN
    /\ Cardinality(Primaries(saved.after)) = IF N >= 1 THEN 1 ELSE 0
    /\ Ids(saved.after) = Ids(saved.before)

\* A save whose document carried two images flagged primary has run.
C9_Witness ==
    /\ Cardinality(Primaries(saved.before)) > 1
    /\ Cardinality(Primaries(saved.after)) = 1
    /\ \E p \in DOMAIN products : products[p].images = saved.after

\* C10: in every state reachable through POST /api/products, PUT
\* /api/products/:id, addImage, removeImage and updateStock, each stored
\* product has at most one image flagged primary.
C10_AtMostOnePrimaryStored ==
    \A p \in DOMAIN products : Cardinality(Primaries(products[p].images)) <= 1

-----------------------------------------------------------------------------
(* Claims about the middleware *)

ProtectedRoutes ==
    {"GET /users", "GET /users/:id", "PUT /users/:id", "DELETE /users/:id",
     "GET /tasks", "GET /tasks/:id", "POST /tasks", "PUT /tasks/:id", "DELETE /tasks/:id",
     "GET /products", "GET /products/:id", "POST /products", "PUT /products/:id",
     "DELETE /products/:id",
     "GET /settings", "PUT /settings", "PUT /settings/profile", "PUT /settings/password",
     "GET /auth/me", "POST /auth/logout"}

\* C3: a request to a route under /api/users, /api/tasks, /api/products or
\* /api/settings, or to /api/auth/me or /api/auth/logout, that carries no
\* bearer token or an expired one gets 401, the route handler is not run,
\* and the stored users, tasks and products are the same after it as before.
\* Checked under GateSpec.
C3_NoTokenNoEffect ==
    [][(last'.route \in ProtectedRoutes /\ last'.auth \in {"none", "expired"})
        => /\ last'.status = 401
           /\ ~last'.ran
           /\ users' = users /\ tasks' = tasks /\ products' = products]_vars

\* An expired token of a live account was turned away from a route that
\* would have deleted a stored record.
C3_Witness ==
    /\ last.route = "DELETE /tasks/:id"
    /\ last.auth = "expired"
    /\ last.status = 401
    /\ tasks # EmptyStore
    /\ \E u \in DOMAIN users : users[u].isActive

AdminRoutes == {"GET /users", "DELETE /users/:id"}

\* C4: the role guard lets a request through only if the acting user's role
\* is permitted: when an authenticated user whose role is not admin calls
\* DELETE /api/users/:id or GET /api/users, the response is 403, the handler
\* is not run, and no user record is removed or changed.  Checked under
\* RoleSpec.
C4_RoleGuard ==
    [][(last'.route \in AdminRoutes /\ last'.actor # NoId)
        => IF users[last'.actor].role # "admin"
           THEN last'.status = 403 /\ ~last'.ran /\ users' = users
           ELSE last'.ran]_vars

\* A non-admin was refused the deletion of a user while another user was
\* stored.
C4_Witness ==
    /\ last.route = "DELETE /users/:id"
    /\ last.status = 403
    /\ last.actor \in DOMAIN users
    /\ users[last.actor].role # "admin"
    /\ Cardinality(DOMAIN users) > 1

-----------------------------------------------------------------------------
(* Claims about the password reset, checked under ResetSpec *)

\* C11: POST /api/auth/forgot-password returns the same status, message and
\* body shape for an email of a stored user as for an email of none: every
\* request with a well-formed email gets the response an unknown email gets.
C11_ForgotPasswordUniform ==
    (last.route = "forgot-password" /\ IsEmail(last.email))
        => /\ last.status = 200
           /\ last.message =
                "If an account with that email exists, a password reset link has been sent"
           /\ last.keys = Envelope

\* C12: POST /api/auth/reset-password changes a stored password only when
\* the token has a valid signature, is not expired, carries type =
\* password-reset and names an existing user; in every other case it returns
\* 400 and nothing stored changes.  An access token is never accepted.
C12_ResetNeedsResetToken ==
    [][last'.route = "reset-password"
        => LET accepted == last'.auth = "reset" /\ last'.id \in DOMAIN users IN
           /\ users' # users => accepted /\ last'.status = 200
           /\ ~accepted => last'.status = 400 /\ users' = users
           /\ last'.status = 200 =>
                users'[last'.id].password = BcryptHash(Raw(last'.password))]_vars

\* A reset with a live reset token replaced the password the account
\* registered with.
C12_Witness ==
    /\ last.route = "reset-password"
    /\ last.auth = "reset"
    /\ last.status = 200
    /\ last.id \in DOMAIN users
    /\ users[last.id].password = BcryptHash(Raw("password123"))

\* C13: a reset token is accepted only by reset-password: presented as a
\* bearer token to authenticateToken it is rejected with 401 and the route
\* handler behind it is not run.
C13_ResetTokenOnlyResets ==
    (last.auth = "reset" /\ last.route \in ProtectedRoutes)
        => last.status = 401 /\ ~last.ran

-----------------------------------------------------------------------------
(* Claims about authenticateToken, checked under RoleSpec *)

\* The token verifies and the user it names is stored and active.
Admissible(h) ==
    /\ h.kind = "jwt"
    /\ ~h.late
    /\ h.userId \in DOMAIN users
    /\ users[h.userId].isActive

-----------------------------------------------------------------------------
(* Claims about errorHandler, checked under ErrorSpec *)

\* The category that decides the response of an error: of the categories
\* the error falls in, the last in the order cast, duplicate, validation,
\* jwt, upload.
Category(err) ==
    IF err.code \in {"LIMIT_FILE_SIZE", "LIMIT_UNEXPECTED_FILE"} THEN "upload"
    ELSE IF err.name \in {"JsonWebTokenError", "TokenExpiredError"} THEN "jwt"
    ELSE IF err.name = "ValidationError" THEN "validation"
    ELSE IF err.code = "11000" THEN "duplicate"
    ELSE IF err.name = "CastError" THEN "cast"
    ELSE "other"

\* The response the mapping table gives an error of a category.
Mapped(x, category) ==
    LET err == x.err IN
    CASE category = "cast" -> x.status = 404
      [] category = "duplicate" ->
            x.status = 400 /\ x.message = err.keyValue \o " already exists"
      [] category = "validation" -> x.status = 400 /\ x.message = Join(err.errors)
      [] category = "jwt" -> x.status = 401
      [] category = "upload" -> x.status = 400
      [] OTHER -> x.status = IF err.statusCode # 0 THEN err.statusCode ELSE 500

\* C15 as stated: the categories are CastError, duplicate key,
\* ValidationError and the two token errors; an error in none of them and
\* with no statusCode of its own gives 500.
C15_ErrorMappingAsStated ==
    last.forwarded =>
        LET err == last.err
            stated == Category([err EXCEPT !.code = IF @ = "11000" THEN @ ELSE ""])
        IN /\ ~last.success
           /\ last.keys = Envelope
           /\ (stated # "other" \/ err.statusCode = 0) => Mapped(last, stated)

\* C15: errorHandler maps every error to one response with success = false
\* and a status fixed by the error's category: CastError 404; duplicate key
\* 400 naming the field; ValidationError 400 with the field messages joined;
\* the token errors 401; an upload error (LIMIT_FILE_SIZE,
\* LIMIT_UNEXPECTED_FILE) 400; an error in none of these gives its own
\* statusCode, or 500 if it has none.
C15_ErrorMapping ==
    last.forwarded =>
        /\ ~last.success
        /\ last.keys = Envelope
        /\ Mapped(last, Category(last.err))

\* errorHandler joined the two messages of a validation error.
C15_Witness ==
    /\ last.route = "errorHandler"
    /\ last.err.name = "ValidationError"
    /\ Len(last.err.errors) = 2
    /\ last.status = 400
    /\ last.message = "First name is required, Please enter a valid email"

-----------------------------------------------------------------------------
(* Claim about persistence failures, checked under FaultSpec *)

\* C16: whenever a persistence call fails with an unexpected fault during a
\* request, reset-password and token authentication included, the error is
\* forwarded to errorHandler and the caller gets a 500 response.
C16_FaultsForwarded ==
    last.err = Fault => last.forwarded /\ last.status = 500

-----------------------------------------------------------------------------
(* Claim about concurrent registration, checked under RaceSpec *)

Stored(email) == \E u \in DOMAIN users : ToLowerCase(users[u].email) = ToLowerCase(email)

\* C17: under any interleaving of concurrent register requests, seeding and
\* user updates, no two stored users have the same email, compared without
\* case; a register request answered while its email is stored gets 400 and
\* creates no user.
C17_EmailsUnique ==
    /\ [](\A u, v \in DOMAIN users :
            u # v => ToLowerCase(users[u].email) # ToLowerCase(users[v].email))
    /\ [][(last' # last /\ last'.route = "register" /\ Stored(last'.email))
            => last'.status = 400 /\ users' = users]_vars

\* A register request passed the lookup, another request stored its email
\* before its save, and the insert was refused.
C17_Witness ==
    /\ last.route = "register"
    /\ last.err = DuplicateKey("email")
    /\ last.status = 400
    /\ Stored(last.email)

-----------------------------------------------------------------------------
(* Claim about seeding, checked under Spec *)

DemoUsers(store) == {u \in DOMAIN store : store[u].email = DemoEmail}

\* C18: every run of seedDemoUser leaves exactly one user with email
\* demo@example.com: a run that finds such a user creates nothing and leaves
\* the store as it was, and a run that finds none creates one active user
\* with role admin and changes no other user.
C18_SeedIdempotent ==
    [][last'.route = "seed" =>
        /\ Cardinality(DemoUsers(users')) = 1
        /\ DemoUsers(users) # {} => users' = users
        /\ DemoUsers(users) = {} =>
            \E u \in DemoUsers(users') :
                /\ DOMAIN users' = DOMAIN users \cup {u}
                /\ u \notin DOMAIN users
                /\ users'[u].isActive
                /\ users'[u].role = "admin"
                /\ \A v \in DOMAIN users : users'[v] = users[v]]_vars

\* seedDemoUser ran when a user with the demo email who had already signed
\* in was stored next to another user.
C18_Witness ==
    /\ last.route = "seed"
    /\ \E u \in DemoUsers(users) : users[u].lastLogin
    /\ \E v \in DOMAIN users : users[v].email # DemoEmail

-----------------------------------------------------------------------------
(* Claims about the routes that take an :id, checked under ResourceSpec *)

DeleteRoutes == {"DELETE /users/:id", "DELETE /tasks/:id", "DELETE /products/:id"}

ByIdRoutes ==
    {"GET /users/:id", "PUT /users/:id", "GET /tasks/:id", "PUT /tasks/:id",
     "GET /products/:id", "PUT /products/:id"} \cup DeleteRoutes

\* The collection a route reads, the message of its 404, and the ids its
\* collection has handed out.
StoreOf(route) ==
    IF route \in {"GET /users/:id", "PUT /users/:id", "DELETE /users/:id"} THEN users
    ELSE IF route \in {"GET /tasks/:id", "PUT /tasks/:id", "DELETE /tasks/:id"} THEN tasks
    ELSE products

StoreAfter(route) ==
    IF route \in {"GET /users/:id", "PUT /users/:id", "DELETE /users/:id"} THEN users'
    ELSE IF route \in {"GET /tasks/:id", "PUT /tasks/:id", "DELETE /tasks/:id"} THEN tasks'
    ELSE products'

NotFound(route) ==
    IF route \in {"GET /users/:id", "PUT /users/:id", "DELETE /users/:id"}
    THEN "User not found"
    ELSE IF route \in {"GET /tasks/:id", "PUT /tasks/:id", "DELETE /tasks/:id"}
    THEN "Task not found"
    ELSE "Product not found"

HandedOut(route) ==
    IF route \in {"GET /users/:id", "PUT /users/:id", "DELETE /users/:id"} THEN nextUid - 1
    ELSE IF route \in {"GET /tasks/:id", "PUT /tasks/:id", "DELETE /tasks/:id"}
    THEN nextTid - 1
    ELSE nextPid - 1

StoresUnchanged == users' = users /\ tasks' = tasks /\ products' = products

\* The step is a request to a route with an :id that reached its handler.
ById == last'.route \in ByIdRoutes /\ last'.ran

Missing == last'.id # BadId /\ last'.id \notin DOMAIN StoreOf(last'.route)

Answered404 ==
    /\ last'.status = 404
    /\ last'.message = NotFound(last'.route)
    /\ ~last'.success
    /\ last'.keys = Envelope

\* The body of the request failed the schema validation of its update.
BodyRefused == last'.err.name = "ValidationError"

\* C19 as stated: every GET, PUT and DELETE that reaches its handler with a
\* well-formed id that is not stored returns 404 "<Resource> not found";
\* with a malformed id it returns 404 through errorHandler; nothing stored
\* is modified.
C19_AbsentIdGives404 ==
    [][ById =>
        /\ last'.id = BadId =>
            last'.status = 404 /\ last'.forwarded /\ ~last'.success /\ StoresUnchanged
        /\ Missing => Answered404 /\ StoresUnchanged]_vars

\* C19: a GET, PUT or DELETE that reaches its handler with a well-formed id
\* that is not stored returns 404 with success false and "<Resource> not
\* found", for PUT provided the body passes validation; with a malformed id
\* it returns 404 through errorHandler; in both cases nothing stored is
\* modified.
C19_AbsentIdGives404ValidBody ==
    [][ById =>
        /\ last'.id = BadId =>
            last'.status = 404 /\ last'.forwarded /\ ~last'.success /\ StoresUnchanged
        /\ Missing => StoresUnchanged
        /\ (Missing /\ ~BodyRefused) => Answered404]_vars

\* All three collections hold a record, and the last request was answered
\* 404 for an id that is not stored.
C19_Witness ==
    /\ users # EmptyStore /\ tasks # EmptyStore /\ products # EmptyStore
    /\ last.route \in ByIdRoutes /\ last.ran
    /\ last.id # BadId /\ last.id \notin DOMAIN StoreOf(last.route)
    /\ last.status = 404

\* The request names an id its collection handed out and no longer holds.
Deleted ==
    /\ last'.id \in 1..HandedOut(last'.route)
    /\ last'.id \notin DOMAIN StoreOf(last'.route)

\* A DELETE that reaches its handler removes a stored record and answers
\* with a success envelope, and answers 404 for an id that is not stored.
DeleteStep ==
    (last'.route \in DeleteRoutes /\ last'.ran /\ last'.id # BadId) =>
        LET store == StoreOf(last'.route)
            after == StoreAfter(last'.route)
        IN IF last'.id \in DOMAIN store
           THEN /\ after = [x \in DOMAIN store \ {last'.id} |-> store[x]]
                /\ last'.status = 200 /\ last'.success /\ last'.keys = Envelope
           ELSE last'.status = 404 /\ after = store

\* C20 as stated: DELETE of a stored id removes the record and returns
\* success, DELETE of an absent id returns 404; after a successful DELETE
\* every later GET, PUT or DELETE of that id returns 404; of two DELETE
\* requests for one stored id the first to reach the store returns success
\* and the other 404.
C20_DeleteThen404 ==
    [][/\ DeleteStep
       /\ (ById /\ Deleted) => last'.status = 404]_vars

\* C20: as stated, except that a later PUT of the deleted id whose body
\* fails validation is not answered 404.
C20_DeleteThen404ValidBody ==
    [][/\ DeleteStep
       /\ (ById /\ Deleted /\ ~BodyRefused) => last'.status = 404]_vars

\* A second DELETE of a task that the first one removed was answered 404.
C20_Witness ==
    /\ last.route = "DELETE /tasks/:id" /\ last.ran
    /\ last.id \in 1..(nextTid - 1)
    /\ last.id \notin DOMAIN tasks
    /\ last.status = 404

-----------------------------------------------------------------------------
(* Claims about the password change, checked under Spec *)

\* The step is a PUT /api/settings/password that reached its handler.
PasswordStep == last'.route = "PUT /settings/password" /\ last'.ran

\* The stored password is replaced only by a request whose currentPassword
\* matches the stored hash, and by the hash of newPassword; a mismatch is
\* answered 400 and every user is left as stored.
PasswordGuard ==
    PasswordStep =>
        LET u == last'.actor
            matches == /\ last'.current # Absent
                       /\ BcryptCompare(last'.current, users[u].password)
        IN /\ last'.status = 200 =>
                /\ matches
                /\ users' = [users EXCEPT ![u].password = BcryptHash(Raw(last'.password))]
           /\ last'.status # 200 => users' = users
           /\ (last'.current # Absent /\ ~matches) => last'.status = 400

\* The step is a login with the email of the user whose password change
\* was the request before it.
LoginAfterChange ==
    /\ last.route = "PUT /settings/password" /\ last.status = 200
    /\ last'.route = "login"
    /\ last.actor \in FindByEmail(NormalizeEmail(last'.email))

-----------------------------------------------------------------------------
(* Claim about logout, checked under GateSpec *)

\* C22: POST /api/auth/logout changes no stored state and revokes nothing:
\* the token used for the logout still authenticates the request that
\* follows, on every protected route, while it is unexpired and its user is
\* stored and active.
C22_LogoutRevokesNothing ==
    [][/\ last'.route = "POST /auth/logout" =>
            /\ users' = users /\ tasks' = tasks /\ products' = products
            /\ issued' = issued
       /\ (/\ last.route = "POST /auth/logout" /\ last.status = 200
           /\ last'.route \in ProtectedRoutes
           /\ last'.bearer = last.bearer /\ last'.auth = "jwt"
           /\ last.bearer \in DOMAIN users /\ users[last.bearer].isActive)
          => last'.status # 401 /\ last'.actor = last.bearer]_vars

\* A logout was acknowledged, with records in every collection, and its
\* token is still let through by authenticateToken.
C22_Witness ==
    /\ last.route = "POST /auth/logout" /\ last.status = 200
    /\ tasks # EmptyStore /\ products # EmptyStore
    /\ AccessToken(last.bearer) \in issued
    /\ AuthenticateToken([kind |-> "jwt", userId |-> last.bearer, type |-> "access",
                          late |-> FALSE]).next

-----------------------------------------------------------------------------
(* Claim about user removal, checked under RemovalSpec *)

\* C23: DELETE /api/users/:id removes only that user record: every task
\* and product, those that reference the deleted user included, and every
\* other user, is left unchanged.
C23_DeleteUserOnly ==
    [][last'.route = "DELETE /users/:id" =>
        /\ tasks' = tasks /\ products' = products
        /\ IF last'.status = 200
           THEN /\ last'.id \in DOMAIN users
                /\ users' = [u \in DOMAIN users \ {last'.id} |-> users[u]]
           ELSE users' = users]_vars

\* A user was deleted; a task and a product that user created are still
\* stored, and so is another user.
C23_Witness ==
    /\ last.route = "DELETE /users/:id" /\ last.status = 200
    /\ last.id \notin DOMAIN users
    /\ users # EmptyStore
    /\ \E t \in DOMAIN tasks : tasks[t].createdBy = last.id
    /\ \E q \in DOMAIN products : products[q].createdBy = last.id

-----------------------------------------------------------------------------
(* Claim about the creator of a record, checked under CreateSpec *)

\* C25: POST /api/tasks and POST /api/products store createdBy equal to the
\* acting user's id, whatever createdBy value the request body carries.
C25_CreatorIsActor ==
    [][/\ (last'.route = "POST /tasks" /\ last'.status = 201) =>
            /\ last'.id \in DOMAIN tasks' \ DOMAIN tasks
            /\ tasks'[last'.id].createdBy = last'.actor
       /\ (last'.route = "POST /products" /\ last'.status = 201) =>
            /\ last'.id \in DOMAIN products' \ DOMAIN products
            /\ products'[last'.id].createdBy = last'.actor]_vars

\* A product was created from a body that names another stored user as its
\* creator, next to a task created earlier.
C25_Witness ==
    /\ last.route = "POST /products" /\ last.status = 201
    /\ last.createdBy \in DOMAIN users \ {last.actor}
    /\ products[last.id].createdBy = last.actor
    /\ tasks # EmptyStore

-----------------------------------------------------------------------------
(* Claim about serialized users, checked under ProfileSpec *)

\* The users a task or product refers to that are stored.
Referenced(store, paths) ==
    {store[x][f] : x \in DOMAIN store, f \in paths} \cap DOMAIN users

\* The user objects in the body of the last response, as the handler of its
\* route serializes them.
ResponseUsers ==
    LET ok == last.ran /\ last.status \in {200, 201}
        names == {"firstName", "lastName", "email"}
    IN
    IF ~ok THEN {}
    ELSE IF last.route \in {"register", "login"}
    THEN {GetPublicProfile(users[last.actor])}
    ELSE IF last.route = "GET /auth/me"
    THEN {GetPublicProfile(Select(users[last.actor], {"password"}))}
    ELSE IF last.route = "GET /users"
    THEN {Select(users[u], {"password"}) : u \in DOMAIN users}
    ELSE IF last.route \in {"GET /users/:id", "PUT /users/:id"}
    THEN {Select(users[last.id], {"password"})}
    ELSE IF last.route = "PUT /settings/profile"
    THEN {Select(users[last.actor], {"password"})}
    ELSE IF last.route \in {"GET /tasks", "GET /tasks/:id", "POST /tasks", "PUT /tasks/:id"}
    THEN {Populate(Select(users[u], {"password"}), names) :
            u \in Referenced(tasks, {"assignedTo", "createdBy"})}
    ELSE IF last.route \in {"GET /products", "GET /products/:id", "POST /products",
                            "PUT /products/:id"}
    THEN {Populate(Select(users[u], {"password"}), names) :
            u \in Referenced(products, {"createdBy"})}
    ELSE {}

\* C24: no response body of an endpoint that returns user data (register,
\* login, me, users list / get / update, settings profile, populated task
\* and product references) contains a user's password field.
C24_NoPasswordInResponses ==
    \A d \in ResponseUsers : "password" \notin DOMAIN d

\* The list of users was returned, with the email of a user whose password
\* is stored.
C24_Witness ==
    /\ last.route = "GET /users" /\ last.status = 200
    /\ \E d \in ResponseUsers : "email" \in DOMAIN d
    /\ \E u \in DOMAIN users : "password" \in DOMAIN users[u]
    /\ tasks # EmptyStore /\ products # EmptyStore

-----------------------------------------------------------------------------
(* Claim about updates of other users, checked under RoleSpec *)

\* C26: a request of an authenticated user whose role is not admin leaves
\* the role, active flag, email and password of every other user as stored.
C26_NonAdminCannotChangeOthers ==
    [][(/\ last'.auth \in {"jwt", "reset"}
        /\ last'.actor \in DOMAIN users
        /\ users[last'.actor].role # "admin")
       => \A u \in (DOMAIN users \cap DOMAIN users') \ {last'.actor} :
            /\ users'[u].role = users[u].role
            /\ users'[u].isActive = users[u].isActive
            /\ users'[u].email = users[u].email
            /\ users'[u].password = users[u].password]_vars

-----------------------------------------------------------------------------
(* Claim about the tokens of removed and deactivated users, checked under   *)
(* RoleSpec                                                                 *)

\* C27: once a user record is deleted or its active flag is false, every
\* request to a route behind authenticateToken that presents a token issued
\* to that user is answered 401, its handler is not run and nothing stored
\* changes, whether or not the token has expired.
C27_StaleTokenRejected ==
    [][(/\ last'.route \in ProtectedRoutes
        /\ last'.bearer # NoId
        /\ (last'.bearer \notin DOMAIN users \/ ~users[last'.bearer].isActive))
       => /\ last'.status = 401 /\ ~last'.ran
          /\ users' = users /\ tasks' = tasks /\ products' = products]_vars

\* The live token of a deleted user was refused while the user that is
\* left is deactivated.
C27_Witness ==
    /\ last.route \in ProtectedRoutes
    /\ last.auth = "jwt"
    /\ last.bearer \notin DOMAIN users
    /\ last.status = 401 /\ last.message = "User not found"
    /\ \E u \in DOMAIN users : ~users[u].isActive

-----------------------------------------------------------------------------
(* Claim about what a login stores, checked under Spec *)

\* C28: POST /api/auth/login changes no stored state when it fails; when it
\* succeeds it changes only lastLogin of the matched user: the stored
\* password is not hashed again, and role, active flag and email stay.
C28_LoginStoresLastLoginOnly ==
    [][last'.route = "login" =>
        /\ tasks' = tasks /\ products' = products
        /\ IF last'.status = 200
           THEN /\ last'.actor \in DOMAIN users
                /\ users' = [users EXCEPT ![last'.actor].lastLogin = TRUE]
           ELSE users' = users]_vars

\* The seeded admin logged in: lastLogin is set and the password is the
\* hash the seeding stored.
C28_Witness ==
    /\ last.route = "login" /\ last.status = 200
    /\ users[last.actor].role = "admin"
    /\ users[last.actor].lastLogin
    /\ users[last.actor].password = BcryptHash(Raw(DemoPassword))

-----------------------------------------------------------------------------
(* Claim about the image kept primary, checked under SaveSpec *)

\* C29: when a product is saved with more than one image flagged primary,
\* the image left flagged primary was flagged primary before the save.
C29_PrimaryNeverPromoted ==
    Cardinality(Primaries(saved.before)) > 1 =>
        Primaries(saved.after) \subseteq Primaries(saved.before)

-----------------------------------------------------------------------------
(* Claim about requests during seeding, checked under RaceSpec *)

\* A run of seedDemoUser is between its User.findOne and its User.create.
SeedInFlight == \E s \in Slots : pending[s].kind = "seed"

\* C30: no request is handled while seeding is under way: between the find
\* and the create of seedDemoUser no request passes its lookup and none is
\* answered.
C30_NoRequestDuringSeed ==
    [][SeedInFlight =>
        /\ \A s \in Slots : pending'[s].kind = "register" => pending[s].kind = "register"
        /\ last' # last => last'.route = "seed"]_vars

=============================================================================
